---------------------------- MODULE Spec2Model ----------------------------
(***************************************************************************)
(* Model of the Scope & Progress Engine of the conductor package:          *)
(* the scope-creep classifier (state.py), the context assembler            *)
(* (context.py), the progress analyzer (monitor.py) and the storage they   *)
(* read and write (db.py).                                                 *)
(*                                                                         *)
(* Text is a sequence of one-character strings, so that lower-casing, the  *)
(* regular expressions and the substring test are computed character by    *)
(* character.  Timestamps are whole hours.                                 *)
(***************************************************************************)
EXTENDS Integers, Sequences, FiniteSets, TLC

VARIABLES
    projects,          \* projects table: project id -> row
    tasks,             \* tasks table: row i is the task with id i
    sessions,          \* sessions table: row i is the session with id i
    learnings,         \* learnings table
    now,               \* the clock (datetime.now / CURRENT_TIMESTAMP), in hours
    max_context_size,  \* ContextManager.max_context_size
    request,           \* the call the caller is about to make, or NoCall
    last               \* the last call made and what it returned, or NoCall

vars == <<projects, tasks, sessions, learnings, now, max_context_size, request, last>>

storage == <<projects, tasks, sessions, learnings>>

\* A nullable value is a sequence: <<>> is None / NULL, <<v>> is the value v.
NULL == <<>>

Some(v) == <<v>>

\* no call: the value of request and last when there is none
NoCall == [op |-> "none"]

--------------------------------------------------------------------------
(* Characters and text                                                     *)

UpperLetters == <<"A","B","C","D","E","F","G","H","I","J","K","L","M","N","O","P","Q","R","S","T","U","V","W","X","Y","Z">>

LowerLetters == <<"a","b","c","d","e","f","g","h","i","j","k","l","m","n","o","p","q","r","s","t","u","v","w","x","y","z">>

Digits == <<"0","1","2","3","4","5","6","7","8","9">>

Range(s) == {s[i] : i \in DOMAIN s}

\* str.lower() on one character
LowerChar(c) ==
    IF \E i \in DOMAIN UpperLetters : UpperLetters[i] = c
    THEN LowerLetters[CHOOSE i \in DOMAIN UpperLetters : UpperLetters[i] = c]
    ELSE c

\* str.lower()
Lower(text) == [i \in DOMAIN text |-> LowerChar(text[i])]

\* the class \w of the re module
IsWordChar(c) == c \in Range(UpperLetters) \cup Range(LowerLetters) \cup Range(Digits) \cup {"_"}

\* the class \s of the re module
IsSpace(c) == c \in {" ", "\t", "\n", "\r", "\f"}

\* the first position >= i of s that does not satisfy the class (Len(s)+1 if none)
RECURSIVE SkipWord(_, _)
SkipWord(s, i) == IF i <= Len(s) /\ IsWordChar(s[i]) THEN SkipWord(s, i + 1) ELSE i

RECURSIVE SkipSpace(_, _)
SkipSpace(s, i) == IF i <= Len(s) /\ IsSpace(s[i]) THEN SkipSpace(s, i + 1) ELSE i

\* the literal lit occurs in s at position i
LiteralAt(lit, s, i) ==
    /\ i + Len(lit) - 1 <= Len(s)
    /\ \A k \in 1..Len(lit) : s[i + k - 1] = lit[k]

\* x in t (substring test of str)
IsSubstring(x, t) ==
    \E i \in 1..(Len(t) - Len(x) + 1) : LiteralAt(x, t, i)

\* re.findall(r'\b\w+\b', s): the maximal runs of word characters, in order
RECURSIVE FindWordsFrom(_, _)
FindWordsFrom(s, i) ==
    IF i > Len(s) THEN <<>>
    ELSE IF IsWordChar(s[i])
         THEN LET e == SkipWord(s, i)
              IN  <<SubSeq(s, i, e - 1)>> \o FindWordsFrom(s, e)
         ELSE FindWordsFrom(s, i + 1)

FindWords(s) == FindWordsFrom(s, 1)

\* An exclusion pattern  lit1 \s+ lit2 \s+ ... \s+ (\w+)  is the sequence of
\* its literals.  MatchEnd is the position after the literals and their
\* white space when the pattern's prefix matches at i, and 0 otherwise.  No
\* literal starts with white space and \w excludes it, so the greedy \s+
\* never has to give a character back.
RECURSIVE MatchLiterals(_, _, _, _)
MatchLiterals(lits, k, s, i) ==
    IF k > Len(lits) THEN i
    ELSE IF ~LiteralAt(lits[k], s, i) THEN 0
    ELSE LET a == i + Len(lits[k])
             b == SkipSpace(s, a)
         IN  IF b = a THEN 0 ELSE MatchLiterals(lits, k + 1, s, b)

\* re.findall(pattern, s) for an exclusion pattern: the captured words of the
\* leftmost non-overlapping matches, in order
RECURSIVE FindExclusionsFrom(_, _, _)
FindExclusionsFrom(lits, s, i) ==
    IF i > Len(s) THEN <<>>
    ELSE LET b == MatchLiterals(lits, 1, s, i)
             e == IF b = 0 THEN 0 ELSE SkipWord(s, b)
         IN  IF b # 0 /\ e > b
             THEN <<SubSeq(s, b, e - 1)>> \o FindExclusionsFrom(lits, s, e)
             ELSE FindExclusionsFrom(lits, s, i + 1)

FindExclusions(lits, s) == FindExclusionsFrom(lits, s, 1)

--------------------------------------------------------------------------
(* Scope classifier: ProjectState (state.py)                               *)

\* exclusion_patterns, in the order the code tries them
exclusion_patterns == <<
    << <<"n","o">> >>,
    << <<"w","i","t","h","o","u","t">> >>,
    << <<"d","o","n","'","t">> >>,
    << <<"e","x","c","l","u","d","e">> >>,
    << <<"n","o","t">>, <<"i","n","c","l","u","d","i","n","g">> >> >>

\* The first element e of seq with P(e), as <<e>>; <<>> when there is none.
RECURSIVE FirstIn(_, _, _)
FirstIn(seq, t, i) ==
    IF i > Len(seq) THEN <<>>
    ELSE IF IsSubstring(seq[i], t) THEN <<seq[i]>>
    ELSE FirstIn(seq, t, i + 1)

\* the loop over the patterns, from pattern p on: the first pattern one of
\* whose captured words occurs in the lower-cased task description
RECURSIVE ExcludedFrom(_, _, _)
ExcludedFrom(p, task_lower, scope_lower) ==
    IF p > Len(exclusion_patterns) THEN [is_excluded |-> FALSE, pattern |-> 0, term |-> <<>>]
    ELSE LET hit == FirstIn(FindExclusions(exclusion_patterns[p], scope_lower), task_lower, 1)
         IN  IF hit # <<>>
             THEN [is_excluded |-> TRUE, pattern |-> p, term |-> hit[1]]
             ELSE ExcludedFrom(p + 1, task_lower, scope_lower)

\* ProjectState.is_explicitly_excluded; the reason string
\* 'Explicitly excluded: <pattern> <term>' is the pair (pattern, term)
is_explicitly_excluded(task_description, scope) ==
    ExcludedFrom(1, Lower(task_description), Lower(scope))

stop_words == {
    <<"a">>, <<"a","n">>, <<"a","n","d">>, <<"a","r","e">>, <<"a","s">>, <<"a","t">>, <<"b","e">>, <<"b","y">>, <<"f","o","r">>,
    <<"f","r","o","m">>, <<"h","a","s">>, <<"h","e">>, <<"i","n">>, <<"i","s">>, <<"i","t">>, <<"i","t","s">>, <<"o","f">>, <<"o","n">>,
    <<"t","h","a","t">>, <<"t","h","e">>, <<"t","o">>, <<"w","a","s">>, <<"w","i","l","l">>, <<"w","i","t","h">>, <<"t","h","i","s">>, <<"b","u","t">>,
    <<"t","h","e","y">>, <<"h","a","v","e">>, <<"h","a","d">>, <<"w","h","a","t">>, <<"w","h","e","n">>, <<"w","h","e","r","e">>, <<"w","h","o">>, <<"w","h","i","c","h">>,
    <<"w","h","y">>, <<"h","o","w">>, <<"a","l","l">>, <<"e","a","c","h">>, <<"e","v","e","r","y">>, <<"b","o","t","h">>, <<"f","e","w">>, <<"m","o","r","e">>,
    <<"m","o","s","t">>, <<"o","t","h","e","r">>, <<"s","o","m","e">>, <<"s","u","c","h">>, <<"n","o">>, <<"n","o","r">>, <<"n","o","t">>, <<"o","n","l","y">>,
    <<"o","w","n">>, <<"s","a","m","e">>, <<"s","o">>, <<"t","h","a","n">>, <<"t","o","o">>, <<"v","e","r","y">>, <<"c","a","n">>, <<"j","u","s","t">>,
    <<"s","h","o","u","l","d">>, <<"n","o","w">> }

\* ProjectState.extract_keywords: the list of keywords, in text order
extract_keywords(text) ==
    LET keep(w) == w \notin stop_words /\ Len(w) > 2
    IN  SelectSeq(FindWords(Lower(text)), keep)

\* A float that is the quotient of two small naturals is kept as the pair
\* [num, den]; 0.0 is [num |-> 0, den |-> 1].
Zero == [num |-> 0, den |-> 1]

AltCalculateSimilarity_SumOfSizes(keywords1, keywords2) ==
    IF keywords1 = <<>> \/ keywords2 = <<>> THEN Zero
    ELSE [num |-> Cardinality(Range(keywords1) \cap Range(keywords2)),
          den |-> Cardinality(Range(keywords1)) + Cardinality(Range(keywords2))]

\* ProjectState.calculate_similarity
calculate_similarity(keywords1, keywords2) ==
    IF keywords1 = <<>> \/ keywords2 = <<>> THEN Zero
    ELSE LET set1 == Range(keywords1)
             set2 == Range(keywords2)
             intersection == Cardinality(set1 \cap set2)
             union == Cardinality(set1 \cup set2)
         IN  IF union = 0 THEN Zero
             ELSE [num |-> intersection, den |-> union]

\* similarity < 0.3 on floats: the quotient of two naturals below 40 is
\* nearer to its own rational than to 3/10 unless it is 3/10, and 3/10 is
\* the same double as the literal 0.3
AltBelowThreshold_Inclusive(sim) == 10 * sim.num <= 3 * sim.den

BelowThreshold(sim) == 10 * sim.num < 3 * sim.den

\* f"{similarity:.2f}": the number of hundredths printed.  The quotient is
\* halfway between two hundredths only when its reduced denominator is 8, 40
\* or 200; with fewer than 40 keywords that is a multiple of 1/8, which is
\* an exact double and is rounded half to even.
Format2f(sim) ==
    LET q == (100 * sim.num) \div sim.den
        r == (100 * sim.num) % sim.den
    IN  IF 2 * r < sim.den THEN q
        ELSE IF 2 * r > sim.den THEN q + 1
        ELSE IF q % 2 = 0 THEN q ELSE q + 1

\* db.get_project(project_id=...)
get_project(project_id) ==
    IF project_id \in DOMAIN projects THEN Some(projects[project_id]) ELSE NULL

AltProjectNotFound_IsCreep == [is_creep |-> TRUE, kind |-> "Project not found"]

\* the pair returned for an unresolved project id
ProjectNotFound == [is_creep |-> FALSE, kind |-> "Project not found"]

ExcludedVerdict(excluded) ==
    [is_creep |-> TRUE, kind |-> "Explicitly excluded",
     pattern |-> excluded.pattern, term |-> excluded.term]

SimilarityVerdict(similarity) ==
    IF BelowThreshold(similarity)
    THEN [is_creep |-> TRUE, kind |-> "Low relevance to original scope",
          similarity |-> Format2f(similarity)]
    ELSE [is_creep |-> FALSE, kind |-> "Within scope",
          similarity |-> Format2f(similarity)]

AltScopeVerdict_SimilarityFirst(original_scope, task_description) ==
    LET excluded == is_explicitly_excluded(task_description, original_scope)
        similarity == calculate_similarity(extract_keywords(original_scope),
                                           extract_keywords(task_description))
    IN  IF ~BelowThreshold(similarity) THEN SimilarityVerdict(similarity)
        ELSE IF excluded.is_excluded THEN ExcludedVerdict(excluded)
        ELSE SimilarityVerdict(similarity)

\* check_scope_creep past the project lookup, on the project's scope.  The
\* returned pair (is_scope_creep, reason) is a record: kind is the fixed text
\* of the reason, and the values formatted into it are the other fields.
ScopeVerdict(original_scope, task_description) ==
    LET excluded == is_explicitly_excluded(task_description, original_scope)
    IN  IF excluded.is_excluded
        THEN ExcludedVerdict(excluded)
        ELSE LET scope_keywords == extract_keywords(original_scope)
                 task_keywords == extract_keywords(task_description)
                 similarity == calculate_similarity(scope_keywords, task_keywords)
             IN  SimilarityVerdict(similarity)

\* ProjectState(project_id, db).check_scope_creep(task_description)
check_scope_creep(project_id, task_description) ==
    LET project == get_project(project_id)
    IN  IF project = NULL THEN ProjectNotFound
        ELSE ScopeVerdict(project[1].scope, task_description)

--------------------------------------------------------------------------
(* Storage rows                                                            *)

Statuses == {"pending", "in_progress", "completed", "blocked"}

\* a row of the projects table (db.py, _initialize_schema)
ProjectRow(name, scope, at) ==
    [name |-> name, scope |-> scope, created_at |-> at, updated_at |-> at]

--------------------------------------------------------------------------
(* Inputs of the classifier                                                *)

\* the scopes and task descriptions of the test suite and of the scenarios
ScopeOfScenario == <<"B","u","i","l","d"," ","d","o","c","u","m","e","n","t"," ","p","i","p","e","l","i","n","e"," ","u","s","i","n","g"," ","P","o","s","t","g","r","e","S","Q","L">>

ScopeOfTestWithin == <<"B","u","i","l","d"," ","d","o","c","u","m","e","n","t"," ","R","A","G"," ","p","i","p","e","l","i","n","e"," ","u","s","i","n","g"," ","P","o","s","t","g","r","e","S","Q","L"," ","v","e","c","t","o","r","s","."," ","N","o"," ","U","I",".">>

ScopeOfTestExclusion == <<"B","u","i","l","d"," ","d","o","c","u","m","e","n","t"," ","R","A","G"," ","p","i","p","e","l","i","n","e","."," ","N","o"," ","U","I","."," ","N","o"," ","a","u","t","h","e","n","t","i","c","a","t","i","o","n",".">>

TaskOfTestWithin == <<"I","m","p","l","e","m","e","n","t"," ","v","e","c","t","o","r"," ","e","m","b","e","d","d","i","n","g","s"," ","w","i","t","h"," ","P","o","s","t","g","r","e","S","Q","L">>

TaskOfTestExclusion == <<"A","d","d"," ","u","s","e","r"," ","a","u","t","h","e","n","t","i","c","a","t","i","o","n"," ","s","y","s","t","e","m">>

TaskOfTestLow == <<"C","r","e","a","t","e"," ","m","o","b","i","l","e"," ","a","p","p"," ","f","o","r"," ","i","O","S"," ","a","n","d"," ","A","n","d","r","o","i","d">>

\* words to build further texts from; all are keywords
Vocabulary == <<
    <<"b","u","i","l","d">>, <<"d","o","c","s">>, <<"r","a","g">>, <<"s","q","l">>, <<"a","p","i">>, <<"w","e","b">>,
    <<"a","u","t","h">>, <<"c","a","c","h","e">>, <<"i","n","d","e","x">>, <<"t","e","s","t","s">>, <<"c","l","i">>, <<"q","u","e","u","e">> >>

\* the longest run of vocabulary words in a text
MaxWindow == 10

RECURSIVE JoinWords(_)
JoinWords(ws) ==
    IF ws = <<>> THEN <<>>
    ELSE IF Len(ws) = 1 THEN ws[1]
    ELSE ws[1] \o <<" ">> \o JoinWords(Tail(ws))

\* the words i..j of the vocabulary, separated by single spaces
Window(i, j) == JoinWords(SubSeq(Vocabulary, i, j))

ScopeSuffixes == {
    <<>>, <<"."," ","N","o"," ","U","I",".">>, <<" ","w","i","t","h"," ","N","O"," "," "," ","a","u","t","h">>, <<" ","w","i","t","h","o","u","t"," ","c","a","c","h","e",";"," ","d","o","n","'","t"," ","i","n","d","e","x">>,
    <<" ","(","e","x","c","l","u","d","e"," ","t","e","s","t","s",")",","," ","n","o","t"," ","i","n","c","l","u","d","i","n","g"," ","s","q","l">> }

TaskSuffixes == { <<>>, <<" ","a","n","d"," ","U","I"," ","f","o","r"," ","T","H","E"," ","A","u","t","h","_","c","a","c","h","e">> }

ScopeTexts ==
    {ScopeOfScenario, ScopeOfTestWithin, ScopeOfTestExclusion}
    \cup {Window(1, i) \o sfx : i \in 0..MaxWindow, sfx \in ScopeSuffixes}

TaskTexts ==
    {TaskOfTestWithin, TaskOfTestExclusion, TaskOfTestLow}
    \cup {Window(i, j) \o sfx : i \in 1..MaxWindow, j \in 0..MaxWindow, sfx \in TaskSuffixes}

\* project ids a caller may pass: "p1" is a stored project in the
\* classifier's specification, "ghost" never resolves
ScopeRequests ==
    {[op |-> "check_scope_creep", project_id |-> "p1", task_description |-> t] : t \in TaskTexts}
    \cup {[op |-> "check_scope_creep", project_id |-> "ghost", task_description |-> t] :
                t \in {TaskOfTestWithin, TaskOfTestExclusion, Window(1, 2), <<>>}}

--------------------------------------------------------------------------
(* Operations of the classifier                                            *)

\* a call of check_scope_creep: reads storage, writes nothing
CheckScopeCreep(project_id, task_description) ==
    /\ last' = [op |-> "check_scope_creep", project_id |-> project_id,
                task_description |-> task_description,
                ret |-> check_scope_creep(project_id, task_description)]
    /\ UNCHANGED <<storage, now, max_context_size>>

InitScope ==
    /\ \E scope \in ScopeTexts : projects = [p \in {"p1"} |-> ProjectRow("rag-pipeline", scope, 0)]
    /\ tasks = <<>>
    /\ sessions = <<>>
    /\ learnings = <<>>
    /\ now = 0
    /\ max_context_size = 8000
    /\ request \in ScopeRequests
    /\ last = NoCall

NextScope ==
    /\ request # NoCall
    /\ request.op = "check_scope_creep"
    /\ CheckScopeCreep(request.project_id, request.task_description)
    /\ request' = NoCall

SpecScope == InitScope /\ [][NextScope]_vars

--------------------------------------------------------------------------
(* Properties of the classifier, under SpecScope                           *)

\* the call recorded in last is check_scope_creep on a stored project
ScopeCallResolved ==
    /\ last.op = "check_scope_creep"
    /\ last.project_id \in DOMAIN projects

LastScopeLower == Lower(projects[last.project_id].scope)

LastTaskLower == Lower(last.task_description)

\* the words pattern p captures from the scope of the last call
Captured(p) == Range(FindExclusions(exclusion_patterns[p], LastScopeLower))

\* some term captured from the scope occurs in the lower-cased task
SomeExclusionApplies ==
    \E p \in DOMAIN exclusion_patterns : \E x \in Captured(p) : IsSubstring(x, LastTaskLower)

\* the keyword sets of the scope and of the task of the last call
Ks == Range(extract_keywords(projects[last.project_id].scope))

Kt == Range(extract_keywords(last.task_description))

\* C2: whenever a term captured from the scope by one of the five exclusion
\* patterns occurs in the lower-cased task description, check_scope_creep
\* returns is_creep = TRUE with the reason 'Explicitly excluded: <pattern> <X>'
\* for a pattern and a term X it captures that occurs in the task, whatever
\* the similarity is; no similarity is reported.
C2_ExclusionDominates ==
    (ScopeCallResolved /\ SomeExclusionApplies) =>
        /\ last.ret.is_creep
        /\ last.ret.kind = "Explicitly excluded"
        /\ last.ret.pattern \in DOMAIN exclusion_patterns
        /\ last.ret.term \in Captured(last.ret.pattern)
        /\ IsSubstring(last.ret.term, LastTaskLower)
        /\ "similarity" \notin DOMAIN last.ret

\* C2 witness: an exclusion fired although the keyword similarity is >= 0.3
C2_Witness ==
    /\ ScopeCallResolved
    /\ SomeExclusionApplies
    /\ last.ret.kind = "Explicitly excluded"
    /\ Ks \cap Kt # {}
    /\ 10 * Cardinality(Ks \cap Kt) >= 3 * Cardinality(Ks \cup Kt)

\* C6: with the scope 'Build document pipeline using PostgreSQL' (or the
\* test's scope 'Build document RAG pipeline using PostgreSQL vectors. No
\* UI.') and the task 'Implement vector embeddings with PostgreSQL',
\* check_scope_creep returns is_creep = FALSE.
C6_ScenarioWithinScope ==
    ( /\ ScopeCallResolved
      /\ projects[last.project_id].scope \in {ScopeOfScenario, ScopeOfTestWithin}
      /\ last.task_description = TaskOfTestWithin )
    => ~last.ret.is_creep

\* C7: when no explicit exclusion fires, is_creep is TRUE exactly when the
\* Jaccard similarity of the two keyword sets is below 0.3 (0.0 when a set is
\* empty); no shared keyword gives creep with similarity 0.00, exactly 3/10
\* gives in-scope, and the reason carries the similarity in both outcomes.
C7_SimilarityThreshold ==
    (ScopeCallResolved /\ ~SomeExclusionApplies) =>
        LET inter == Cardinality(Ks \cap Kt)
            union == Cardinality(Ks \cup Kt)
            jaccard == IF Ks = {} \/ Kt = {} THEN Zero ELSE [num |-> inter, den |-> union]
        IN  /\ last.ret.is_creep <=> (10 * jaccard.num < 3 * jaccard.den)
            /\ last.ret.kind = IF last.ret.is_creep THEN "Low relevance to original scope"
                               ELSE "Within scope"
            /\ last.ret.similarity = Format2f(jaccard)
            /\ inter = 0 => (last.ret.is_creep /\ last.ret.similarity = 0)
            /\ (10 * jaccard.num = 3 * jaccard.den) => ~last.ret.is_creep

\* C7 witness: 3 shared keywords of 10, no exclusion, classified in-scope
C7_Witness ==
    /\ ScopeCallResolved
    /\ ~SomeExclusionApplies
    /\ Cardinality(Ks \cap Kt) = 3
    /\ Cardinality(Ks \cup Kt) = 10
    /\ last.ret = [is_creep |-> FALSE, kind |-> "Within scope", similarity |-> 30]

\* C8 as stated: equal, non-empty keyword sets give similarity 1.0 and an
\* in-scope verdict.
C8_EqualKeywordsInScope ==
    (ScopeCallResolved /\ Ks = Kt /\ Ks # {}) =>
        /\ ~last.ret.is_creep
        /\ last.ret.similarity = 100

\* C8 amended: equal, non-empty keyword sets have Jaccard similarity 1.0,
\* and the task is classified in-scope (similarity 1.00) unless a term
\* captured by an exclusion pattern occurs in the task, in which case it is
\* classified as creep.
C8_EqualKeywordsInScopeUnlessExcluded ==
    (ScopeCallResolved /\ Ks = Kt /\ Ks # {}) =>
        LET sim == calculate_similarity(extract_keywords(projects[last.project_id].scope),
                                        extract_keywords(last.task_description))
        IN  /\ sim.num = sim.den
            /\ IF SomeExclusionApplies
               THEN last.ret.is_creep /\ last.ret.kind = "Explicitly excluded"
               ELSE last.ret = [is_creep |-> FALSE, kind |-> "Within scope", similarity |-> 100]

\* C8 witness: equal non-empty keyword sets, no exclusion, in scope
C8_Witness ==
    /\ ScopeCallResolved
    /\ Ks = Kt
    /\ Cardinality(Ks) >= 2
    /\ ~SomeExclusionApplies
    /\ ~last.ret.is_creep

\* C9: check_scope_creep with a project id that does not resolve returns
\* (False, 'Project not found') for every task description and leaves
\* storage unchanged.
C9_ProjectNotFound ==
    [][ (last'.op = "check_scope_creep" /\ last'.project_id \notin DOMAIN projects /\ request # NoCall)
            => /\ last'.ret = [is_creep |-> FALSE, kind |-> "Project not found"]
               /\ storage' = storage ]_vars

\* C9 witness: a call with the unresolved id has returned
C9_Witness ==
    /\ last.op = "check_scope_creep"
    /\ last.project_id \notin DOMAIN projects
    /\ last.task_description # <<>>
    /\ last.ret.kind = "Project not found"

--------------------------------------------------------------------------
(* Storage: Database (db.py).  Timestamps are whole hours; the process     *)
(* clock and the database clock are taken to be the same clock.            *)

\* a row of the tasks table, as add_task inserts it
TaskRow(project_id, description, is_scope_creep, status, at) ==
    [project_id |-> project_id, description |-> description, status |-> status,
     is_scope_creep |-> is_scope_creep, blocked_reason |-> NULL,
     created_at |-> at, completed_at |-> NULL]

\* a row of the sessions table, as start_session inserts it
SessionRow(project_id, machine_id, at) ==
    [project_id |-> project_id, machine_id |-> machine_id, started_at |-> at,
     ended_at |-> NULL, tasks_completed |-> 0]

\* the ids in S in ascending order of (key, id): ORDER BY key ASC, rows with
\* equal keys in rowid order
RECURSIVE SortAsc(_, _)
SortAsc(S, key) ==
    IF S = {} THEN <<>>
    ELSE LET m == CHOOSE i \in S : \A j \in S :
                        key[i] < key[j] \/ (key[i] = key[j] /\ i <= j)
         IN  <<m>> \o SortAsc(S \ {m}, key)

\* ORDER BY key DESC, rows with equal keys in rowid order
RECURSIVE SortDesc(_, _)
SortDesc(S, key) ==
    IF S = {} THEN <<>>
    ELSE LET m == CHOOSE i \in S : \A j \in S :
                        key[i] > key[j] \/ (key[i] = key[j] /\ i <= j)
         IN  <<m>> \o SortDesc(S \ {m}, key)

\* no status filter
AnyStatus == "any"

\* db.get_tasks(project_id, status): the ids of the selected tasks, by
\* created_at ascending
get_tasks(project_id, status) ==
    SortAsc({i \in DOMAIN tasks :
                /\ tasks[i].project_id = project_id
                /\ (status = AnyStatus \/ tasks[i].status = status)},
            [i \in DOMAIN tasks |-> tasks[i].created_at])

\* db.get_task_stats(project_id)
get_task_stats(project_id) ==
    LET count(st) == Cardinality({i \in DOMAIN tasks :
                        tasks[i].project_id = project_id /\ tasks[i].status = st})
    IN  [pending |-> count("pending"), in_progress |-> count("in_progress"),
         completed |-> count("completed"), blocked |-> count("blocked"),
         total |-> Cardinality({i \in DOMAIN tasks : tasks[i].project_id = project_id})]

\* db.get_session(session_id)
get_session(session_id) ==
    IF session_id \in DOMAIN sessions THEN Some(sessions[session_id]) ELSE NULL

AltGetActiveSessions_AnyProject(project_id) ==
    SortDesc({i \in DOMAIN sessions : sessions[i].ended_at = NULL},
             [i \in DOMAIN sessions |-> sessions[i].started_at])

\* db.get_active_sessions(project_id): ids, by started_at descending
get_active_sessions(project_id) ==
    SortDesc({i \in DOMAIN sessions :
                sessions[i].ended_at = NULL /\ sessions[i].project_id = project_id},
             [i \in DOMAIN sessions |-> sessions[i].started_at])

--------------------------------------------------------------------------
(* Next action: ProjectState.suggest_next_action (state.py)                *)

AltSuggestNextAction_BlockedFirst(project_id) ==
    LET in_progress == get_tasks(project_id, "in_progress")
        blocked == get_tasks(project_id, "blocked")
        pending == get_tasks(project_id, "pending")
    IN  IF blocked # <<>> THEN [action |-> "unblock", task_id |-> blocked[1]]
        ELSE IF in_progress # <<>> THEN [action |-> "continue", task_id |-> in_progress[1]]
        ELSE IF pending # <<>> THEN [action |-> "start", task_id |-> pending[1]]
        ELSE [action |-> "none"]

\* the dict returned, without the texts copied from the task
suggest_next_action(project_id) ==
    LET in_progress == get_tasks(project_id, "in_progress")
        blocked == get_tasks(project_id, "blocked")
        pending == get_tasks(project_id, "pending")
    IN  IF in_progress # <<>> THEN [action |-> "continue", task_id |-> in_progress[1]]
        ELSE IF blocked # <<>> THEN [action |-> "unblock", task_id |-> blocked[1]]
        ELSE IF pending # <<>> THEN [action |-> "start", task_id |-> pending[1]]
        ELSE [action |-> "none"]

--------------------------------------------------------------------------
(* Progress analyzer: ProgressMonitor (monitor.py)                         *)

\* a call either returns a value or raises
Returned(v) == [raised |-> FALSE, value |-> v]

Raised(e) == [raised |-> TRUE, error |-> e]

\* round(n / d): to the nearest integer, an exact half to the even one.  The
\* quotients rounded here are halves only when they are exact doubles.
RoundDiv(n, d) ==
    LET q == n \div d
        r == n % d
    IN  IF 2 * r < d THEN q
        ELSE IF 2 * r > d THEN q + 1
        ELSE IF q % 2 = 0 THEN q ELSE q + 1

\* thresholds and weights of monitor.py
LongRunningHours == 24

ManyBlockedTasks == 3

StaleProjectDays == 1

HoursPerDay == 24

VelocityDays == 7

BlockedWeight == 30

HighSeverityPenalty == 15

OtherSeverityPenalty == 5

LowVelocityPenalty == 10

CreepWeight == 20

\* ProgressMonitor.analyze_session; hours and rates in hundredths
analyze_session(session_id) ==
    LET session == get_session(session_id)
    IN  IF session = NULL THEN [error |-> "Session not found"]
        ELSE LET s == session[1]
                 is_active == s.ended_at = NULL
                 ended == IF is_active THEN now ELSE s.ended_at[1]
                 duration == ended - s.started_at
             IN  [session_id |-> session_id, project_id |-> s.project_id,
                  machine_id |-> s.machine_id, started_at |-> s.started_at,
                  ended_at |-> s.ended_at, duration_hours |-> 100 * duration,
                  tasks_completed |-> s.tasks_completed,
                  tasks_per_hour |-> IF duration > 0
                                     THEN RoundDiv(100 * s.tasks_completed, duration) ELSE 0,
                  is_active |-> is_active]

\* ProgressMonitor.get_project_sessions
get_project_sessions(project_id) ==
    LET ended == SortDesc({i \in DOMAIN sessions :
                            sessions[i].ended_at # NULL /\ sessions[i].project_id = project_id},
                          [i \in DOMAIN sessions |-> sessions[i].started_at])
        all_sessions == get_active_sessions(project_id) \o ended
    IN  [k \in DOMAIN all_sessions |-> analyze_session(all_sessions[k])]

\* the long_running_task indicators, one per in-progress task older than 24 hours
LongRunningIndicators(project_id) ==
    LET in_progress == get_tasks(project_id, "in_progress")
        old(i) == now - tasks[i].created_at > LongRunningHours
        hit == SelectSeq(in_progress, old)
    IN  [k \in DOMAIN hit |->
            [type |-> "long_running_task", severity |-> "high", task_id |-> hit[k],
             description |-> tasks[hit[k]].description,
             age_hours |-> 10 * (now - tasks[hit[k]].created_at)]]

AltManyBlockedIndicators_AtLeastThree(project_id) ==
    LET blocked == get_tasks(project_id, "blocked")
    IN  IF Len(blocked) >= ManyBlockedTasks
        THEN <<[type |-> "many_blocked_tasks", severity |-> "high", count |-> Len(blocked)]>>
        ELSE <<>>

ManyBlockedIndicators(project_id) ==
    LET blocked == get_tasks(project_id, "blocked")
    IN  IF Len(blocked) > ManyBlockedTasks
        THEN <<[type |-> "many_blocked_tasks", severity |-> "high", count |-> Len(blocked)]>>
        ELSE <<>>

\* timedelta.days of now - created_at
AgeDays(created_at) == (now - created_at) \div HoursPerDay

NoCompletedIndicators(project) ==
    IF AgeDays(project.created_at) > StaleProjectDays
    THEN <<[type |-> "no_completed_tasks", severity |-> "medium",
            age_days |-> AgeDays(project.created_at)]>>
    ELSE <<>>

ScopeCreepIndicators(project_id) ==
    LET all_tasks == get_tasks(project_id, AnyStatus)
        creep(i) == tasks[i].is_scope_creep
        scope_creep_tasks == SelectSeq(all_tasks, creep)
    IN  IF scope_creep_tasks # <<>>
        THEN <<[type |-> "scope_creep", severity |-> "medium", count |-> Len(scope_creep_tasks),
                percentage |-> RoundDiv(1000 * Len(scope_creep_tasks), Len(all_tasks))]>>
        ELSE <<>>

\* ProgressMonitor.detect_stuck_patterns.  project['created_at'] on the None
\* that get_project returns for an unresolved id raises TypeError.
detect_stuck_patterns(project_id) ==
    LET stats == get_task_stats(project_id)
        project == get_project(project_id)
        check_age == stats.completed = 0 /\ stats.total > 0
    IN  IF check_age /\ project = NULL THEN Raised("TypeError")
        ELSE Returned(LongRunningIndicators(project_id)
                      \o ManyBlockedIndicators(project_id)
                      \o (IF check_age THEN NoCompletedIndicators(project[1]) ELSE <<>>)
                      \o ScopeCreepIndicators(project_id))

\* ProgressMonitor.get_velocity; tasks_per_day in hundredths,
\* estimated_days_to_completion in tenths
get_velocity(project_id, days) ==
    LET completed == get_tasks(project_id, "completed")
        cutoff == now - HoursPerDay * days
        recent(i) == tasks[i].completed_at # NULL /\ tasks[i].completed_at[1] >= cutoff
        recent_completed == SelectSeq(completed, recent)
        n == Len(recent_completed)
        stats == get_task_stats(project_id)
        remaining == stats.pending + stats.in_progress
        \* remaining / tasks_per_day is truthy unless it is 0.0
        estimated == IF days > 0 /\ n > 0 /\ remaining > 0
                     THEN Some(RoundDiv(10 * remaining * days, n)) ELSE NULL
    IN  [period_days |-> days, tasks_completed |-> n,
         tasks_per_day |-> IF days > 0 THEN RoundDiv(100 * n, days) ELSE 0,
         remaining_tasks |-> remaining,
         estimated_days_to_completion |-> estimated]

AltClamp_NoFloor(score) == IF score > 100 THEN 100 ELSE score

\* max(0, min(100, score))
Clamp(score) == IF score < 0 THEN 0 ELSE IF score > 100 THEN 100 ELSE score

HealthStatus(score) ==
    IF score >= 80 THEN "healthy"
    ELSE IF score >= 60 THEN "needs_attention"
    ELSE IF score >= 40 THEN "at_risk"
    ELSE "critical"

\* the four penalties of get_project_health, given the stuck indicators
BlockedPenalty(stats) ==
    IF stats.blocked > 0
    THEN (IF stats.total > 0 THEN (BlockedWeight * stats.blocked) \div stats.total ELSE 0)
    ELSE 0

StuckPenalty(stuck_patterns) ==
    LET high(p) == p.severity = "high"
        high_severity == Len(SelectSeq(stuck_patterns, high))
    IN  high_severity * HighSeverityPenalty
            + (Len(stuck_patterns) - high_severity) * OtherSeverityPenalty

AltVelocityPenalty_None(velocity) == 0

VelocityPenalty(velocity) == IF velocity.tasks_per_day < 50 THEN LowVelocityPenalty ELSE 0

\* scope_creep and creep_ratio > 0.2, with creep_ratio = creep / total
CreepFlagged(creep, total) == creep > 0 /\ 5 * creep > total

AltCreepPenalty_NoThreshold(creep, total) ==
    IF creep > 0 THEN (CreepWeight * creep) \div total ELSE 0

\* int(creep_ratio * 20)
CreepPenalty(creep, total) ==
    IF CreepFlagged(creep, total) THEN (CreepWeight * creep) \div total ELSE 0

CreepCount(project_id) ==
    Cardinality({i \in DOMAIN tasks :
                    tasks[i].project_id = project_id /\ tasks[i].is_scope_creep})

\* ProgressMonitor.get_project_health
get_project_health(project_id) ==
    LET stats == get_task_stats(project_id)
        stuck == detect_stuck_patterns(project_id)
    IN  IF stuck.raised THEN stuck
        ELSE LET velocity == get_velocity(project_id, VelocityDays)
                 creep == CreepCount(project_id)
                 score == Clamp(100 - BlockedPenalty(stats) - StuckPenalty(stuck.value)
                                    - VelocityPenalty(velocity)
                                    - CreepPenalty(creep, stats.total))
                 issues == (IF stats.blocked > 0
                            THEN <<[issue |-> "blocked tasks", count |-> stats.blocked]>> ELSE <<>>)
                        \o (IF stuck.value # <<>>
                            THEN <<[issue |-> "stuck indicators", count |-> Len(stuck.value)]>> ELSE <<>>)
                        \o (IF VelocityPenalty(velocity) > 0
                            THEN <<[issue |-> "Low velocity", count |-> 0]>> ELSE <<>>)
                        \o (IF CreepFlagged(creep, stats.total)
                            THEN <<[issue |-> "scope creep tasks", count |-> creep]>> ELSE <<>>)
             IN  Returned([score |-> score, status |-> HealthStatus(score), issues |-> issues])

\* the sum of the duration_hours of the analytics in ss[k..]
RECURSIVE SumDurations(_, _)
SumDurations(ss, k) ==
    IF k > Len(ss) THEN 0 ELSE ss[k].duration_hours + SumDurations(ss, k + 1)

\* ProgressMonitor.get_productivity_report
get_productivity_report(project_id) ==
    LET project == get_project(project_id)
    IN  IF project = NULL THEN Returned([error |-> "Project not found"])
        ELSE LET stats == get_task_stats(project_id)
                 health == get_project_health(project_id)
                 stuck == detect_stuck_patterns(project_id)
                 analytics == get_project_sessions(project_id)
                 total_hours == SumDurations(analytics, 1)
             IN  IF health.raised THEN health
                 ELSE Returned(
                   [project |-> [id |-> project_id, name |-> project[1].name,
                                 scope |-> project[1].scope,
                                 created_at |-> project[1].created_at,
                                 updated_at |-> project[1].updated_at],
                    completion |-> [percentage |-> IF stats.total > 0
                                                   THEN (100 * stats.completed) \div stats.total
                                                   ELSE 0,
                                    completed |-> stats.completed, total |-> stats.total,
                                    remaining |-> stats.pending + stats.in_progress],
                    health |-> health.value,
                    velocity |-> get_velocity(project_id, VelocityDays),
                    stuck_patterns |-> stuck.value,
                    time |-> [total_hours |-> total_hours,
                              session_count |-> Len(analytics),
                              avg_session_hours |-> IF analytics # <<>>
                                                    THEN RoundDiv(total_hours, Len(analytics))
                                                    ELSE 0],
                    status_breakdown |-> [pending |-> stats.pending,
                                          in_progress |-> stats.in_progress,
                                          completed |-> stats.completed,
                                          blocked |-> stats.blocked]])

\* the recommendations get_recommendations derives from the stuck indicators
PatternRecommendations(stuck_patterns) ==
    LET advised(p) == p.type \in {"long_running_task", "many_blocked_tasks"}
        hit == SelectSeq(stuck_patterns, advised)
    IN  [k \in DOMAIN hit |->
            IF hit[k].type = "long_running_task"
            THEN [text |-> "Consider breaking down or reassessing", task_id |-> hit[k].task_id]
            ELSE [text |-> "Focus on unblocking tasks before starting new work"]]

AltOrNextAction_Always(recommendations, project_id) ==
    recommendations \o <<[text |-> "Next", next_action |-> suggest_next_action(project_id)]>>

\* "if not recommendations:" of get_recommendations: the next action as the
\* one recommendation; what suggest_next_action returns is never falsy
OrNextAction(recommendations, project_id) ==
    IF recommendations # <<>> THEN recommendations
    ELSE <<[text |-> "Next", next_action |-> suggest_next_action(project_id)]>>

\* ProgressMonitor.get_recommendations: the recommendations in order, each
\* the fixed text with the value formatted into it
get_recommendations(project_id) ==
    LET health == get_project_health(project_id)
    IN  IF health.raised THEN health
        ELSE LET stats == get_task_stats(project_id)
                 stuck_patterns == detect_stuck_patterns(project_id).value
                 velocity == get_velocity(project_id, VelocityDays)
                 creep == CreepCount(project_id)
                 recommendations ==
                       (IF health.value.score < 60
                        THEN <<[text |-> "Project health is concerning"]>> ELSE <<>>)
                    \o PatternRecommendations(stuck_patterns)
                    \o (IF velocity.tasks_per_day < 50
                        THEN <<[text |-> "Velocity is low"]>> ELSE <<>>)
                    \o (IF stats.in_progress > 2
                        THEN <<[text |-> "Multiple tasks in progress"]>> ELSE <<>>)
                    \o (IF stats.blocked > 0
                        THEN <<[text |-> "You have blocked tasks", count |-> stats.blocked]>>
                        ELSE <<>>)
                    \o (IF creep > 0
                        THEN <<[text |-> "Review scope creep tasks", count |-> creep]>>
                        ELSE <<>>)
                    \o (IF health.value.score >= 80 /\ velocity.tasks_per_day >= 100
                        THEN <<[text |-> "Project is progressing well"]>> ELSE <<>>)
             IN  Returned(OrNextAction(recommendations, project_id))

--------------------------------------------------------------------------
(* Context assembler: ContextManager.optimize_context (context.py)         *)

\* "\n".join(parts)
RECURSIVE JoinLines(_)
JoinLines(parts) ==
    IF parts = <<>> THEN <<>>
    ELSE IF Len(parts) = 1 THEN parts[1]
    ELSE parts[1] \o <<"\n">> \o JoinLines(Tail(parts))

\* "\n\n... (truncated)"
TruncationMarker == <<"\n", "\n">> \o <<".",".","."," ","(","t","r","u","n","c","a","t","e","d",")">>

\* the least remaining budget that is not enough for a truncated part
MeaningfulSpace == 100

\* what the cut of a truncated part leaves of the remaining budget
MarkerReserve == 50

\* part[:n] for n >= 0
Prefix(part, n) == SubSeq(part, 1, IF n < Len(part) THEN n ELSE Len(part))

RECURSIVE AltPrune_BestFit(_, _, _)
AltPrune_BestFit(parts, k, current_size) ==
    IF k > Len(parts) THEN <<>>
    ELSE IF current_size + Len(parts[k]) <= max_context_size
         THEN <<parts[k]>> \o AltPrune_BestFit(parts, k + 1, current_size + Len(parts[k]))
         ELSE AltPrune_BestFit(parts, k + 1, current_size)

\* the pruning loop from part k on: result_parts, given the sizes taken so far
RECURSIVE Prune(_, _, _)
Prune(parts, k, current_size) ==
    IF k > Len(parts) THEN <<>>
    ELSE IF current_size + Len(parts[k]) <= max_context_size
         THEN <<parts[k]>> \o Prune(parts, k + 1, current_size + Len(parts[k]))
         ELSE LET remaining == max_context_size - current_size
              IN  IF remaining > MeaningfulSpace
                  THEN <<Prefix(parts[k], remaining - MarkerReserve) \o TruncationMarker>>
                  ELSE <<>>

\* ContextManager.optimize_context
optimize_context(parts) ==
    LET full_context == JoinLines(parts)
    IN  IF Len(full_context) <= max_context_size THEN full_context
        ELSE JoinLines(Prune(parts, 1, 0))

\* the budgets and parts of the assembler's specification: the smaller budget
\* SmallBudget, part k a run of its own letter, of a length around the budget
SmallBudget == 120

MaxParts == 3

ContextBudgets == {SmallBudget, SmallBudget + 60}

PartLengths == {1, 60, SmallBudget - 60, SmallBudget - 20, SmallBudget + 30}

PartOf(k, n) == [i \in 1..n |-> LowerLetters[k]]

ContextRequests ==
    {[op |-> "optimize_context", parts |-> [k \in DOMAIN lens |-> PartOf(k, lens[k])]] :
        lens \in UNION {[1..m -> PartLengths] : m \in 1..MaxParts}}

\* a call of optimize_context: reads the budget, writes nothing
OptimizeContext(parts) ==
    /\ last' = [op |-> "optimize_context", parts |-> parts, ret |-> optimize_context(parts)]
    /\ UNCHANGED <<storage, now, max_context_size>>

InitCtx ==
    /\ projects = <<>>
    /\ tasks = <<>>
    /\ sessions = <<>>
    /\ learnings = <<>>
    /\ now = 0
    /\ max_context_size \in ContextBudgets
    /\ request \in ContextRequests
    /\ last = NoCall

NextCtx ==
    /\ request # NoCall
    /\ request.op = "optimize_context"
    /\ OptimizeContext(request.parts)
    /\ request' = NoCall

SpecCtx == InitCtx /\ [][NextCtx]_vars

\* C1: whatever optimize_context returns is no longer than max_context_size
C1_ContextWithinBudget ==
    last.op = "optimize_context" => Len(last.ret) <= max_context_size

--------------------------------------------------------------------------
(* Operations on storage (db.py) and the task lifecycle (state.py)         *)

AltTouchProject_EveryProject(table, project_id) ==
    [p \in DOMAIN table |-> [table[p] EXCEPT !.updated_at = now]]

\* Database._touch_project: no row is updated for an id that is not stored
touch_project(table, project_id) ==
    IF project_id \in DOMAIN table
    THEN [table EXCEPT ![project_id].updated_at = now]
    ELSE table

AltUpdateTask_NotFromCompleted(task_id, fields) ==
    IF task_id \in DOMAIN tasks /\ tasks[task_id].status # "completed"
    THEN [tasks EXCEPT ![task_id] =
            [f \in DOMAIN tasks[task_id] |->
                IF f \in DOMAIN fields THEN fields[f] ELSE tasks[task_id][f]]]
    ELSE tasks

\* Database.update_task(task_id, **fields) on the tasks table: no row is
\* updated for an id that is not stored
update_task(task_id, fields) ==
    IF task_id \in DOMAIN tasks
    THEN [tasks EXCEPT ![task_id] =
            [f \in DOMAIN tasks[task_id] |->
                IF f \in DOMAIN fields THEN fields[f] ELSE tasks[task_id][f]]]
    ELSE tasks

\* the project touched by update_task: the one of the updated row, if any
TouchedBy(task_id) ==
    IF task_id \in DOMAIN tasks
    THEN touch_project(projects, tasks[task_id].project_id)
    ELSE projects

AltIncrementSessionTasks_ActiveOnly(session_id) ==
    IF session_id \in DOMAIN sessions /\ sessions[session_id].ended_at = NULL
    THEN [sessions EXCEPT ![session_id].tasks_completed = @ + 1]
    ELSE sessions

\* Database.increment_session_tasks
increment_session_tasks(session_id) ==
    IF session_id \in DOMAIN sessions
    THEN [sessions EXCEPT ![session_id].tasks_completed = @ + 1]
    ELSE sessions

\* the environment of the lifecycle specification
MaxTasks == 2

MaxSessions == 2

MaxClock == 36

\* the largest value of a session's tasks_completed counter
MaxCompleted == 2

ClockSteps == {36}

ProjectIdPool == {"p1"}

\* an id that create_project never returned
UnresolvedId == "ghost"

ProjectIds == ProjectIdPool \cup {UnresolvedId}

TaskIds == 1..(MaxTasks + 1)

SessionIds == 1..(MaxSessions + 1)

Descriptions == {"task"}

Reasons == {"Waiting"}

Machines == {"laptop"}

\* db.create_project(name, scope): the new id is one never used before
CreateProject(project_id, name, scope) ==
    /\ project_id \notin DOMAIN projects
    /\ \A p \in DOMAIN projects : projects[p].name # name
    /\ projects' = [p \in DOMAIN projects \cup {project_id} |->
                        IF p = project_id THEN ProjectRow(name, scope, now) ELSE projects[p]]
    /\ last' = NoCall
    /\ UNCHANGED <<tasks, sessions, learnings, now, max_context_size, request>>

\* db.add_task(project_id, description, is_scope_creep, status)
AddTask(project_id, description, is_scope_creep, status) ==
    /\ Len(tasks) < MaxTasks
    /\ tasks' = Append(tasks, TaskRow(project_id, description, is_scope_creep, status, now))
    /\ projects' = touch_project(projects, project_id)
    /\ last' = NoCall
    /\ UNCHANGED <<sessions, learnings, now, max_context_size, request>>

\* ProjectState.mark_task_complete(task_id, session_id); session_id is NULL
\* or Some(id)
MarkTaskComplete(task_id, session_id) ==
    /\ \A s \in DOMAIN sessions : session_id = Some(s) => sessions[s].tasks_completed < MaxCompleted
    /\ tasks' = update_task(task_id, [status |-> "completed", completed_at |-> Some(now)])
    /\ projects' = TouchedBy(task_id)
    /\ sessions' = IF session_id # NULL THEN increment_session_tasks(session_id[1])
                   ELSE sessions
    /\ last' = NoCall
    /\ UNCHANGED <<learnings, now, max_context_size, request>>

\* ProjectState.mark_task_blocked(task_id, reason)
MarkTaskBlocked(task_id, reason) ==
    /\ tasks' = update_task(task_id, [status |-> "blocked", blocked_reason |-> Some(reason)])
    /\ projects' = TouchedBy(task_id)
    /\ last' = NoCall
    /\ UNCHANGED <<sessions, learnings, now, max_context_size, request>>

AltMarkTaskInProgress_Requeues(task_id) ==
    /\ tasks' = update_task(task_id, [status |-> "pending"])
    /\ projects' = TouchedBy(task_id)
    /\ last' = NoCall
    /\ UNCHANGED <<sessions, learnings, now, max_context_size, request>>

\* ProjectState.mark_task_in_progress(task_id)
MarkTaskInProgress(task_id) ==
    /\ tasks' = update_task(task_id, [status |-> "in_progress"])
    /\ projects' = TouchedBy(task_id)
    /\ last' = NoCall
    /\ UNCHANGED <<sessions, learnings, now, max_context_size, request>>

\* db.update_task(task_id, status=status), called without the lifecycle
\* methods of ProjectState
UpdateTask(task_id, status) ==
    /\ tasks' = update_task(task_id,
                    IF status = "completed"
                    THEN [status |-> status, completed_at |-> Some(now)]
                    ELSE [status |-> status])
    /\ projects' = TouchedBy(task_id)
    /\ last' = NoCall
    /\ UNCHANGED <<sessions, learnings, now, max_context_size, request>>

\* db.start_session(project_id, machine_id)
StartSession(project_id, machine_id) ==
    /\ Len(sessions) < MaxSessions
    /\ sessions' = Append(sessions, SessionRow(project_id, machine_id, now))
    /\ last' = NoCall
    /\ UNCHANGED <<projects, tasks, learnings, now, max_context_size, request>>

\* db.end_session(session_id)
EndSession(session_id) ==
    /\ sessions' = IF session_id \in DOMAIN sessions
                   THEN [sessions EXCEPT ![session_id].ended_at = Some(now)]
                   ELSE sessions
    /\ last' = NoCall
    /\ UNCHANGED <<projects, tasks, learnings, now, max_context_size, request>>

\* time passes
Tick(d) ==
    /\ now + d <= MaxClock
    /\ now' = now + d
    /\ UNCHANGED <<storage, max_context_size, request, last>>

AltQuery_TouchesProjects(op, arg, ret) ==
    /\ last' = [op |-> op, arg |-> arg, ret |-> ret]
    /\ projects' = [p \in DOMAIN projects |-> [projects[p] EXCEPT !.updated_at = now + 1]]
    /\ UNCHANGED <<tasks, sessions, learnings, now, max_context_size>>

\* the calls that read storage and write nothing
Query(op, arg, ret) ==
    /\ last' = [op |-> op, arg |-> arg, ret |-> ret]
    /\ UNCHANGED <<storage, now, max_context_size>>

SuggestNextAction(project_id) ==
    Query("suggest_next_action", project_id, suggest_next_action(project_id))

AnalyzeSession(session_id) ==
    Query("analyze_session", session_id, Returned(analyze_session(session_id)))

DetectStuckPatterns(project_id) ==
    Query("detect_stuck_patterns", project_id, detect_stuck_patterns(project_id))

GetVelocity(project_id) ==
    Query("get_velocity", project_id, Returned(get_velocity(project_id, VelocityDays)))

GetProjectHealth(project_id) ==
    Query("get_project_health", project_id, get_project_health(project_id))

GetProductivityReport(project_id) ==
    Query("get_productivity_report", project_id, get_productivity_report(project_id))

GetRecommendations(project_id) ==
    Query("get_recommendations", project_id, get_recommendations(project_id))

\* the state after Database(db_path) on a new file
Init ==
    /\ projects = <<>>
    /\ tasks = <<>>
    /\ sessions = <<>>
    /\ learnings = <<>>
    /\ now = 0
    /\ max_context_size = 8000
    /\ request = NoCall
    /\ last = NoCall

\* The lifecycle of projects and tasks.  The sessions table stays empty here,
\* so a session id passed to mark_task_complete matches no row.
Next ==
    \/ \E p \in ProjectIdPool : CreateProject(p, "rag-pipeline", ScopeOfTestWithin)
    \/ \E p \in ProjectIds, d \in Descriptions, c \in BOOLEAN, st \in Statuses :
            AddTask(p, d, c, st)
    \/ \E t \in TaskIds, s \in {NULL} \cup {Some(i) : i \in SessionIds} : MarkTaskComplete(t, s)
    \/ \E t \in TaskIds, r \in Reasons : MarkTaskBlocked(t, r)
    \/ \E t \in TaskIds : MarkTaskInProgress(t)
    \/ \E t \in TaskIds, st \in Statuses : UpdateTask(t, st)
    \/ \E d \in ClockSteps : Tick(d)
    \/ \E p \in ProjectIds : SuggestNextAction(p) /\ UNCHANGED request

Spec == Init /\ [][Next]_vars

--------------------------------------------------------------------------
(* The analyzer on stored data                                             *)

\* The analyzer's specification starts from a database that earlier calls
\* have filled: one project, two sessions and up to MaxMonitorTasks tasks,
\* all of one owner.  The owner is the project or, add_task checking nothing
\* about its project_id, an id that resolves to no project.
MaxMonitorTasks == 5

MaxOrphans == 2

\* the clock when the analyzer is called
MonitorNow == 240

\* hours since the project was created: under two days, two days, more
ProjectAges == {47, 48, 200}

\* The tasks an owner can have, oldest first: status, scope-creep flag, hours
\* since creation and, as a nullable, hours since completion.  Ages sit on
\* both sides of the 24-hour and 7-day limits of the analyzer.
TaskKinds == <<
    [status |-> "completed",   is_scope_creep |-> FALSE, age |-> 170, done |-> Some(169)],
    [status |-> "completed",   is_scope_creep |-> FALSE, age |-> 170, done |-> Some(168)],
    [status |-> "in_progress", is_scope_creep |-> FALSE, age |-> 25,  done |-> NULL],
    [status |-> "in_progress", is_scope_creep |-> TRUE,  age |-> 25,  done |-> NULL],
    [status |-> "in_progress", is_scope_creep |-> FALSE, age |-> 24,  done |-> NULL],
    [status |-> "completed",   is_scope_creep |-> FALSE, age |-> 0,   done |-> Some(0)],
    [status |-> "completed",   is_scope_creep |-> FALSE, age |-> 0,   done |-> NULL],
    [status |-> "pending",     is_scope_creep |-> FALSE, age |-> 0,   done |-> NULL],
    [status |-> "pending",     is_scope_creep |-> TRUE,  age |-> 0,   done |-> NULL],
    [status |-> "blocked",     is_scope_creep |-> FALSE, age |-> 0,   done |-> NULL],
    [status |-> "blocked",     is_scope_creep |-> TRUE,  age |-> 0,   done |-> NULL],
    [status |-> "in_progress", is_scope_creep |-> FALSE, age |-> 0,   done |-> NULL] >>

\* the row of a task of kind k, as add_task and update_task leave it
KindRow(owner, k, at) ==
    [project_id |-> owner, description |-> "task", status |-> TaskKinds[k].status,
     is_scope_creep |-> TaskKinds[k].is_scope_creep,
     blocked_reason |-> IF TaskKinds[k].status = "blocked" THEN Some("Waiting") ELSE NULL,
     created_at |-> at - TaskKinds[k].age,
     completed_at |-> IF TaskKinds[k].done = NULL THEN NULL
                      ELSE Some(at - TaskKinds[k].done[1])]

\* the task tables: the kinds of the rows, in id order, oldest first
KindLists ==
    UNION {{ks \in [1..n -> DOMAIN TaskKinds] :
                \A i \in 1..n, j \in 1..n : i < j => ks[i] <= ks[j]} : n \in 0..MaxMonitorTasks}

\* a project's tasks are no older than the project
MonitorInputs ==
    {[owner |-> "p1", kinds |-> ks, age |-> a] : ks \in KindLists, a \in ProjectAges}
    \cup {[owner |-> UnresolvedId, kinds |-> ks, age |-> 200] :
                ks \in {l \in KindLists : Len(l) <= MaxOrphans}}

\* hours since the owner's tasks last touched the project row
RECURSIVE LastTouchAge(_, _, _)
LastTouchAge(kinds, k, least) ==
    IF k > Len(kinds) THEN least
    ELSE LET kind == TaskKinds[kinds[k]]
             a == IF kind.done # NULL /\ kind.done[1] < kind.age THEN kind.done[1] ELSE kind.age
         IN  LastTouchAge(kinds, k + 1, IF a < least THEN a ELSE least)

Consistent(input) ==
    input.owner = "p1" => \A i \in DOMAIN input.kinds : TaskKinds[input.kinds[i]].age <= input.age

ProjectOps ==
    {"get_project_health", "detect_stuck_patterns", "get_velocity",
     "get_recommendations", "get_productivity_report"}

\* the calls made on a database: on the owner of its tasks; on an unresolved
\* id; with any session id
MonitorRequests(input) ==
    {[op |-> o, arg |-> input.owner] : o \in ProjectOps \cup {"suggest_next_action"}}
    \cup (IF Len(input.kinds) <= MaxOrphans
          THEN {[op |-> o, arg |-> UnresolvedId] : o \in ProjectOps}
               \cup {[op |-> "analyze_session", arg |-> s] : s \in 1..3}
          ELSE {})

InitMonitor ==
    /\ now = MonitorNow
    /\ \E input \in MonitorInputs :
        /\ Consistent(input)
        /\ projects = [p \in {"p1"} |->
                        [ProjectRow("rag-pipeline", ScopeOfTestWithin, now - input.age) EXCEPT
                            !.updated_at = IF input.owner = "p1"
                                           THEN now - LastTouchAge(input.kinds, 1, input.age)
                                           ELSE now - input.age]]
        /\ tasks = [i \in DOMAIN input.kinds |-> KindRow(input.owner, input.kinds[i], now)]
        /\ request \in MonitorRequests(input)
    /\ sessions = << [SessionRow("p1", "laptop", now - 5) EXCEPT
                            !.ended_at = Some(now - 3), !.tasks_completed = 1],
                     SessionRow("p1", "laptop", now - 2) >>
    /\ learnings = <<>>
    /\ max_context_size = 8000
    /\ last = NoCall

NextMonitor ==
    /\ request # NoCall
    /\ request' = NoCall
    /\ \/ request.op = "suggest_next_action" /\ SuggestNextAction(request.arg)
       \/ request.op = "analyze_session" /\ AnalyzeSession(request.arg)
       \/ request.op = "detect_stuck_patterns" /\ DetectStuckPatterns(request.arg)
       \/ request.op = "get_velocity" /\ GetVelocity(request.arg)
       \/ request.op = "get_project_health" /\ GetProjectHealth(request.arg)
       \/ request.op = "get_productivity_report" /\ GetProductivityReport(request.arg)
       \/ request.op = "get_recommendations" /\ GetRecommendations(request.arg)

SpecMonitor == InitMonitor /\ [][NextMonitor]_vars

--------------------------------------------------------------------------
(* Properties of the analyzer and of the next action                       *)

\* the last call was get_project_health, on a stored project
HealthCallResolved ==
    last.op = "get_project_health" /\ last.arg \in DOMAIN projects

\* the tasks of the project the last call was about
LastTasks == {i \in DOMAIN tasks : tasks[i].project_id = last.arg}

\* C3: get_project_health on a stored project returns, and whenever it
\* returns, for whatever tasks and sessions are stored, its score is in 0..100
C3_HealthScoreInRange ==
    last.op = "get_project_health" =>
        /\ last.arg \in DOMAIN projects => ~last.ret.raised
        /\ ~last.ret.raised => last.ret.value.score \in 0..100

\* C3 witness: a call whose penalties add up to more than 100: five old in-progress
\* scope-creep tasks, and the score returned is 0
C3_Witness ==
    /\ HealthCallResolved
    /\ Cardinality(LastTasks) = 5
    /\ \A i \in LastTasks : /\ tasks[i].status = "in_progress"
                            /\ tasks[i].is_scope_creep
                            /\ now - tasks[i].created_at > LongRunningHours
    /\ last.ret.value.score = 0

\* C4 as stated: for a project with zero tasks get_project_health returns
\* score 100 and status healthy
C4_EmptyProjectScore100 ==
    (HealthCallResolved /\ LastTasks = {}) =>
        /\ ~last.ret.raised
        /\ last.ret.value.score = 100
        /\ last.ret.value.status = "healthy"

\* C4, amended: for a project with zero tasks get_project_health returns
\* score 90 (the low-velocity penalty applies, no task having been completed
\* in the last 7 days), status healthy and the single issue Low velocity
C4_EmptyProjectScore90 ==
    (HealthCallResolved /\ LastTasks = {}) =>
        /\ ~last.ret.raised
        /\ last.ret.value.score = 90
        /\ last.ret.value.status = "healthy"
        /\ last.ret.value.issues = <<[issue |-> "Low velocity", count |-> 0]>>

\* C4 witness: get_project_health has returned for a project without tasks
C4_Witness ==
    /\ HealthCallResolved
    /\ LastTasks = {}
    /\ last.ret.value.score = 90

\* the analyzer calls that take a project id
ProjectCall == last.op \in ProjectOps

\* C10: no analyzer call with an unresolved id raises: analyze_session with
\* an unknown session id returns the sentinel, and a call with a project id
\* that is not stored returns, whatever tasks carry that id
C10_NoRaiseOnUnresolved ==
    /\ (last.op = "analyze_session" /\ last.arg \notin DOMAIN sessions) =>
            last.ret = Returned([error |-> "Session not found"])
    /\ (ProjectCall /\ last.arg \notin DOMAIN projects) => ~last.ret.raised

\* the tasks of the project of the last call that have status st
LastWith(st) == {i \in LastTasks : tasks[i].status = st}

\* i is an earliest-created task of S
Earliest(i, S) == i \in S /\ \A j \in S : tasks[i].created_at <= tasks[j].created_at

\* the suggestion is action a on an earliest-created task of S
Suggests(a, S) ==
    /\ last.ret.action = a
    /\ Earliest(last.ret.task_id, S)

\* C5: suggest_next_action is 'continue' on the earliest-created in_progress
\* task if there is one, else 'unblock' on the earliest-created blocked task
\* if there is one, else 'start' on the earliest-created pending task if
\* there is one, else 'none'
C5_NextActionPriority ==
    last.op = "suggest_next_action" =>
        IF LastWith("in_progress") # {} THEN Suggests("continue", LastWith("in_progress"))
        ELSE IF LastWith("blocked") # {} THEN Suggests("unblock", LastWith("blocked"))
        ELSE IF LastWith("pending") # {} THEN Suggests("start", LastWith("pending"))
        ELSE last.ret = [action |-> "none"]

\* C5 witness: one task in each of in_progress, blocked and pending, the in-progress one
\* added last, and the suggestion is to continue it
C5_Witness ==
    /\ last.op = "suggest_next_action"
    /\ last.arg \in DOMAIN projects
    /\ \A st \in {"in_progress", "blocked", "pending"} : Cardinality(LastWith(st)) = 1
    /\ last.ret.action = "continue"
    /\ last.ret.task_id \in LastWith("in_progress")
    /\ \A i \in LastWith("blocked") \cup LastWith("pending") : i < last.ret.task_id

--------------------------------------------------------------------------
(* Properties of the task lifecycle                                        *)

\* the tasks stored before and after a step
Kept == DOMAIN tasks \cap DOMAIN tasks'

Added == DOMAIN tasks' \ DOMAIN tasks

\* C11: completed_at is non-null if and only if the status is or once was
\* completed: a completed task has a completed_at; a task gets a
\* completed_at only in a step that leaves it completed, a new task only if
\* it is created completed; and a completed_at once set is never null again
C11_CompletedAtIffEverCompleted ==
    /\ [](\A t \in DOMAIN tasks : tasks[t].status = "completed" => tasks[t].completed_at # NULL)
    /\ [][(\A a \in Added :
                tasks'[a].completed_at # NULL => tasks'[a].status = "completed")
           /\ (\A t \in Kept :
                /\ (tasks[t].completed_at = NULL /\ tasks'[t].completed_at # NULL)
                        => tasks'[t].status = "completed"
                /\ tasks[t].completed_at # NULL => tasks'[t].completed_at # NULL)]_vars

\* C12: a completed_at that is set never changes again, whatever lifecycle
\* operation follows
C12_CompletedAtSetOnce ==
    [][\A t \in Kept :
            tasks[t].completed_at # NULL => tasks'[t].completed_at = tasks[t].completed_at]_vars

\* C13: a task that is not blocked carries no blocked_reason
C13_BlockedReasonOnlyWhileBlocked ==
    \A t \in DOMAIN tasks : tasks[t].status # "blocked" => tasks[t].blocked_reason = NULL

\* C16: each of the three transitions can be taken on a stored task whatever
\* its status, and every way of taking it leaves the task in the status of
\* the operation
C16_TransitionsUnvalidated ==
    \A t \in DOMAIN tasks :
        /\ ENABLED MarkTaskComplete(t, NULL)
        /\ ~ENABLED (MarkTaskComplete(t, NULL) /\ tasks'[t].status # "completed")
        /\ ENABLED MarkTaskInProgress(t)
        /\ ~ENABLED (MarkTaskInProgress(t) /\ tasks'[t].status # "in_progress")
        /\ \A r \in Reasons :
                /\ ENABLED MarkTaskBlocked(t, r)
                /\ ~ENABLED (MarkTaskBlocked(t, r) /\ tasks'[t].status # "blocked")

\* C16 witness: every status has been left for another one and entered again:
\* a task completed at an earlier time is blocked now, next to a task that
\* was blocked and completed afterwards
C16_Witness ==
    \E t, u \in DOMAIN tasks :
        /\ tasks[t].status = "blocked"
        /\ tasks[t].completed_at # NULL
        /\ tasks[u].status = "completed"
        /\ tasks[u].blocked_reason # NULL

--------------------------------------------------------------------------
(* Sessions: start_session, end_session and the counter of completed tasks *)

GetActiveSessions(project_id) ==
    Query("get_active_sessions", project_id, get_active_sessions(project_id))

\* Work sessions on one project and on an id that names no project, with the
\* tasks completed in them, all within one hour of the clock.
NextSession ==
    \/ \E p \in ProjectIdPool : CreateProject(p, "rag-pipeline", ScopeOfTestWithin)
    \/ \E p \in ProjectIds, m \in Machines : StartSession(p, m)
    \/ \E s \in SessionIds : EndSession(s)
    \/ \E p \in ProjectIdPool, d \in Descriptions, st \in Statuses : AddTask(p, d, FALSE, st)
    \/ \E t \in TaskIds, s \in {NULL} \cup {Some(i) : i \in SessionIds} : MarkTaskComplete(t, s)
    \/ \E s \in SessionIds : AnalyzeSession(s) /\ UNCHANGED request
    \/ \E p \in ProjectIds : GetActiveSessions(p) /\ UNCHANGED request

SpecSession == Init /\ [][NextSession]_vars

\* C14: mark_task_complete(t, s) leaves a stored task t completed with
\* completed_at set to the time of the call; a session's tasks_completed never
\* decreases and changes only in a mark_task_complete call carrying that
\* session's id, which raises it by exactly 1 whatever the task's status was
\* (completed already, or no such task); a call without a session id changes
\* no session row
C14_CounterCountsCompletions ==
    [][/\ \A s \in DOMAIN sessions :
            /\ s \in DOMAIN sessions'
            /\ sessions'[s].tasks_completed >= sessions[s].tasks_completed
            /\ sessions'[s].tasks_completed # sessions[s].tasks_completed
                    => \E t \in TaskIds : MarkTaskComplete(t, Some(s))
       /\ \A t \in TaskIds, c \in {NULL} \cup {Some(i) : i \in SessionIds} :
            MarkTaskComplete(t, c) =>
                /\ t \in DOMAIN tasks =>
                        /\ tasks'[t].status = "completed"
                        /\ tasks'[t].completed_at = Some(now)
                /\ \A s \in DOMAIN sessions :
                        sessions'[s].tasks_completed =
                            sessions[s].tasks_completed + (IF c = Some(s) THEN 1 ELSE 0)
                /\ c = NULL => sessions' = sessions]_vars

\* C14 witness: one session counted two completions although a single task
\* exists, while another session's counter stayed at 0
C14_Witness ==
    /\ Len(tasks) = 1
    /\ tasks[1].status = "completed"
    /\ \E s, r \in DOMAIN sessions :
            sessions[s].tasks_completed = 2 /\ sessions[r].tasks_completed = 0

\* the sessions of a project whose ended_at is null
ActiveOf(project_id) ==
    {i \in DOMAIN sessions :
        sessions[i].ended_at = NULL /\ sessions[i].project_id = project_id}

\* C18: sessions of one project may be active together, and active means
\* ended_at is null: start_session succeeds whatever sessions are active, adds
\* one active row and changes no other; end_session gives the named session
\* an ended_at and changes no other row; get_active_sessions(p) returns
\* exactly the sessions of p with null ended_at, each once; analyze_session
\* reports is_active = TRUE for exactly those sessions
C18_ConcurrentActiveSessions ==
    /\ [](/\ last.op = "get_active_sessions" =>
                /\ {last.ret[k] : k \in DOMAIN last.ret} = ActiveOf(last.arg)
                /\ Len(last.ret) = Cardinality(ActiveOf(last.arg))
          /\ (last.op = "analyze_session" /\ last.arg \in DOMAIN sessions) =>
                last.ret.value.is_active = (sessions[last.arg].ended_at = NULL)
          /\ Len(sessions) < MaxSessions =>
                \A p \in ProjectIds, m \in Machines : ENABLED StartSession(p, m))
    /\ [][/\ \A p \in ProjectIds, m \in Machines :
                StartSession(p, m) =>
                    /\ Len(sessions') = Len(sessions) + 1
                    /\ sessions'[Len(sessions')].ended_at = NULL
                    /\ sessions'[Len(sessions')].project_id = p
                    /\ \A s \in DOMAIN sessions : sessions'[s] = sessions[s]
          /\ \A e \in SessionIds :
                EndSession(e) =>
                    /\ DOMAIN sessions' = DOMAIN sessions
                    /\ e \in DOMAIN sessions => sessions'[e].ended_at # NULL
                    /\ \A s \in DOMAIN sessions \ {e} : sessions'[s] = sessions[s]]_vars

\* C18 witness: get_active_sessions returned two sessions of one project,
\* both active at once
C18_Witness ==
    /\ last.op = "get_active_sessions"
    /\ Len(last.ret) = 2
    /\ \A k \in DOMAIN last.ret : sessions[last.ret[k]].project_id = last.arg
--------------------------------------------------------------------------
(* Read-only views: state summary, compliance report, context (state.py,   *)
(* context.py)                                                             *)

\* ProjectState.get_blockers
get_blockers(project_id) == get_tasks(project_id, "blocked")

\* ProjectState.get_progress_percentage: int(completed / total * 100)
get_progress_percentage(project_id) ==
    LET stats == get_task_stats(project_id)
    IN  IF stats.total = 0 THEN 0 ELSE (100 * stats.completed) \div stats.total

AltGetEstimatedRemainingTasks_Unblocked(project_id) ==
    LET stats == get_task_stats(project_id)
    IN  stats.pending + stats.in_progress

\* ProjectState.get_estimated_remaining_tasks
get_estimated_remaining_tasks(project_id) ==
    LET stats == get_task_stats(project_id)
    IN  stats.pending + stats.in_progress + stats.blocked

\* ProjectState.get_state_summary
get_state_summary(project_id) ==
    [project |-> get_project(project_id),
     stats |-> get_task_stats(project_id),
     progress |-> get_progress_percentage(project_id),
     remaining_tasks |-> get_estimated_remaining_tasks(project_id),
     next_action |-> suggest_next_action(project_id),
     blocker_count |-> Len(get_blockers(project_id)),
     blockers |-> get_blockers(project_id)]

\* ProjectState.get_scope_compliance_report; the two percentages are the
\* quotients num / den
get_scope_compliance_report(project_id) ==
    LET all_tasks == get_tasks(project_id, AnyStatus)
        creep(i) == tasks[i].is_scope_creep
        scope_creep_tasks == SelectSeq(all_tasks, creep)
        done_creep(i) == tasks[i].status = "completed" /\ tasks[i].is_scope_creep
        completed_scope_creep == SelectSeq(all_tasks, done_creep)
    IN  [total_tasks |-> Len(all_tasks),
         scope_creep_tasks |-> Len(scope_creep_tasks),
         scope_creep_percentage |->
            IF all_tasks # <<>>
            THEN [num |-> 100 * Len(scope_creep_tasks), den |-> Len(all_tasks)]
            ELSE [num |-> 0, den |-> 1],
         completed_scope_creep |-> Len(completed_scope_creep),
         compliance_score |->
            IF all_tasks # <<>>
            THEN [num |-> 100 * (Len(all_tasks) - Len(scope_creep_tasks)), den |-> Len(all_tasks)]
            ELSE [num |-> 100, den |-> 1]]

\* a row of the learnings table, as add_learning inserts it
LearningRow(pattern, context, project_id, session_id, at) ==
    [pattern |-> pattern, context |-> context, project_id |-> project_id,
     session_id |-> session_id, created_at |-> at]

\* db.get_learnings(project_id=project_id, limit=limit): ids, newest first
get_learnings(project_id, limit) ==
    Prefix(SortDesc({i \in DOMAIN learnings : learnings[i].project_id = Some(project_id)},
                    [i \in DOMAIN learnings |-> learnings[i].created_at]),
           limit)

\* the characters of the names, descriptions, reasons and patterns stored by
\* the lifecycle specifications
Characters(s) ==
    CASE s = "rag-pipeline" -> <<"r","a","g","-","p","i","p","e","l","i","n","e">>
      [] s = "task" -> <<"t","a","s","k">>
      [] s = "Waiting" -> <<"W","a","i","t","i","n","g">>
      [] s = "Use uv" -> <<"U","s","e"," ","u","v">>
      [] s = "Faster installs" -> <<"F","a","s","t","e","r"," ","i","n","s","t","a","l","l","s">>
      [] s = "first" -> <<"f","i","r","s","t">>
      [] s = "second" -> <<"s","e","c","o","n","d">>
      [] s = "third" -> <<"t","h","i","r","d">>
      [] s = "fourth" -> <<"f","o","u","r","t","h">>

\* str(n) of a natural number
RECURSIVE Decimal(_)
Decimal(n) ==
    LET d == <<"0", "1", "2", "3", "4", "5", "6", "7", "8", "9">>
    IN  IF n < 10 THEN <<d[n + 1]>> ELSE Decimal(n \div 10) \o <<d[(n % 10) + 1]>>

\* "".join(lines)
RECURSIVE Concat(_)
Concat(lines) ==
    IF lines = <<>> THEN <<>> ELSE Head(lines) \o Concat(Tail(lines))

\* the symbols of the context, each one character of the text (the warning
\* sign is followed by a variation selector)
Symbol == [check |-> <<"U+2713">>, warning |-> <<"U+26A0", "U+FE0F">>,
           cycle |-> <<"U+27F3">>, circle |-> <<"U+25CB">>, no_entry |-> <<"U+1F6AB">>]

NL == <<"\n">>

\* ContextManager.get_project_header
get_project_header(project_id) ==
    LET project == get_project(project_id)
        stats == get_task_stats(project_id)
    IN  IF project = NULL THEN <<>>
        ELSE <<"#"," ","P","r","o","j","e","c","t",":"," ">> \o Characters(project[1].name)
             \o NL \o <<"*","*","S","c","o","p","e",":","*","*"," ">> \o project[1].scope
             \o (IF stats.total > 0
                 THEN NL \o <<"*","*","P","r","o","g","r","e","s","s",":","*","*"," ">>
                      \o Decimal((100 * stats.completed) \div stats.total)
                      \o <<"%"," ","c","o","m","p","l","e","t","e"," ","(">> \o Decimal(stats.completed) \o <<"/">>
                      \o Decimal(stats.total) \o <<" ","t","a","s","k","s",")">>
                      \o (IF stats.blocked > 0
                          THEN NL \o Symbol.warning \o <<" "," ">> \o Decimal(stats.blocked)
                               \o <<" ","b","l","o","c","k","e","d"," ","t","a","s","k","s">>
                          ELSE <<>>)
                 ELSE <<>>)

\* seq[-n:]
Suffix(seq, n) ==
    SubSeq(seq, IF Len(seq) > n THEN Len(seq) - n + 1 ELSE 1, Len(seq))

HistoryItems == 10

NextTasksShown == 5

\* ContextManager.get_relevant_history(project_id, max_items)
get_relevant_history(project_id, max_items) ==
    LET completed == get_tasks(project_id, "completed")
        in_progress == get_tasks(project_id, "in_progress")
        pending == get_tasks(project_id, "pending")
        blocked == get_tasks(project_id, "blocked")
        item(mark, ids) ==
            Concat([k \in DOMAIN ids |->
                        NL \o <<"-"," ">> \o mark \o <<" ">> \o Characters(tasks[ids[k]].description)])
        reason(i) == IF tasks[i].blocked_reason # NULL
                     THEN <<" ","(">> \o Characters(tasks[i].blocked_reason[1]) \o <<")">>
                     ELSE <<>>
    IN  (IF completed # <<>>
         THEN NL \o NL \o <<"#","#"," ","R","e","c","e","n","t","l","y"," ","C","o","m","p","l","e","t","e","d">>
              \o item(Symbol.check, Suffix(completed, max_items))
         ELSE <<>>)
        \o (IF in_progress # <<>>
            THEN NL \o NL \o <<"#","#"," ","I","n"," ","P","r","o","g","r","e","s","s">> \o item(Symbol.cycle, in_progress)
            ELSE <<>>)
        \o (IF pending # <<>>
            THEN NL \o NL \o <<"#","#"," ","N","e","x","t"," ","T","a","s","k","s">>
                 \o item(Symbol.circle, Prefix(pending, NextTasksShown))
                 \o (IF Len(pending) > NextTasksShown
                     THEN NL \o <<"-"," ",".",".","."," ","a","n","d"," ">> \o Decimal(Len(pending) - NextTasksShown)
                          \o <<" ","m","o","r","e">>
                     ELSE <<>>)
            ELSE <<>>)
        \o (IF blocked # <<>>
            THEN NL \o NL \o <<"#","#"," ","B","l","o","c","k","e","d"," ","T","a","s","k","s">>
                 \o Concat([k \in DOMAIN blocked |->
                        NL \o <<"-"," ">> \o Symbol.no_entry \o <<" ">>
                        \o Characters(tasks[blocked[k]].description) \o reason(blocked[k])])
            ELSE <<>>)

DecisionsShown == 5

LongContext == 100

ContextKept == 97

\* ContextManager.get_recent_decisions(project_id, limit)
get_recent_decisions(project_id, limit) ==
    LET found == get_learnings(project_id, limit)
        context(i) ==
            IF learnings[i].context = NULL \/ learnings[i].context = Some("") THEN <<>>
            ELSE LET c == Characters(learnings[i].context[1])
                 IN  NL \o <<" "," ","C","o","n","t","e","x","t",":"," ">>
                     \o (IF Len(c) > LongContext THEN Prefix(c, ContextKept) \o <<".",".",".">> ELSE c)
    IN  IF found = <<>> THEN <<>>
        ELSE NL \o NL \o <<"#","#"," ","R","e","c","e","n","t"," ","L","e","a","r","n","i","n","g","s"," ","&"," ","D","e","c","i","s","i","o","n","s">>
             \o Concat([k \in DOMAIN found |->
                    NL \o <<"-"," ">> \o Characters(learnings[found[k]].pattern)
                    \o context(found[k])])

\* ContextManager.get_relevant_patterns: a placeholder returning ""
get_relevant_patterns(project_id) == <<>>

\* [p for p in parts if p]
NonEmpty(parts) ==
    LET keep(p) == p # <<>>
    IN  SelectSeq(parts, keep)

\* [p for p in parts if p.strip()]
NonBlank(parts) ==
    LET keep(p) == \E k \in DOMAIN p : p[k] \notin {" ", "\n"}
    IN  SelectSeq(parts, keep)

\* ContextManager.prepare_context
prepare_context(project_id) ==
    optimize_context(NonEmpty(<<get_project_header(project_id),
                                get_relevant_history(project_id, HistoryItems),
                                get_recent_decisions(project_id, DecisionsShown),
                                get_relevant_patterns(project_id)>>))

\* ContextManager.format_context_for_llm with every section included
format_context_for_llm(project_id) ==
    LET patterns == get_relevant_patterns(project_id)
    IN  optimize_context(NonBlank(<<get_project_header(project_id),
                                    get_relevant_history(project_id, HistoryItems),
                                    get_recent_decisions(project_id, DecisionsShown)>>
                                  \o (IF patterns # <<>> THEN <<patterns>> ELSE <<>>)))

MaxLearnings == 1

Patterns == {"Use uv"}

Contexts == {NULL, Some("Faster installs")}

\* db.add_learning(pattern, context, project_id, session_id)
AddLearning(pattern, context, project_id, session_id) ==
    /\ Len(learnings) < MaxLearnings
    /\ learnings' = Append(learnings, LearningRow(pattern, context, project_id, session_id, now))
    /\ last' = NoCall
    /\ UNCHANGED <<projects, tasks, sessions, now, max_context_size, request>>

GetStateSummary(project_id) ==
    Query("get_state_summary", project_id, get_state_summary(project_id))

GetScopeComplianceReport(project_id) ==
    Query("get_scope_compliance_report", project_id, get_scope_compliance_report(project_id))

PrepareContext(project_id) ==
    Query("prepare_context", project_id, prepare_context(project_id))

FormatContextForLlm(project_id) ==
    Query("format_context_for_llm", project_id, format_context_for_llm(project_id))

\* the operations that only read
ReadOps ==
    {"check_scope_creep", "suggest_next_action", "get_scope_compliance_report",
     "get_state_summary", "prepare_context", "format_context_for_llm",
     "analyze_session", "get_velocity", "detect_stuck_patterns",
     "get_project_health", "get_recommendations", "get_productivity_report"}

\* Every operation of the classifier, the assembler and the analyzer, called
\* between the writes of a small project within one hour of the clock: one
\* task, one session, one learning.
NextReadOnly ==
    \/ \E p \in ProjectIdPool : CreateProject(p, "rag-pipeline", ScopeOfTestWithin)
    \/ \E p \in ProjectIdPool, d \in Descriptions, c \in BOOLEAN :
            tasks = <<>> /\ AddTask(p, d, c, "pending")
    \/ \E t \in DOMAIN tasks : MarkTaskComplete(t, NULL)
    \/ \E t \in DOMAIN tasks, r \in Reasons : MarkTaskBlocked(t, r)
    \/ \E t \in DOMAIN tasks : MarkTaskInProgress(t)
    \/ \E p \in ProjectIdPool, m \in Machines : sessions = <<>> /\ StartSession(p, m)
    \/ \E s \in DOMAIN sessions : EndSession(s)
    \/ \E p \in ProjectIdPool, pt \in Patterns, c \in Contexts : AddLearning(pt, c, Some(p), NULL)
    \/ \E p \in ProjectIds, d \in {TaskOfTestWithin, TaskOfTestLow} :
            CheckScopeCreep(p, d) /\ UNCHANGED request
    \/ \E p \in ProjectIds : SuggestNextAction(p) /\ UNCHANGED request
    \/ \E p \in ProjectIds : GetScopeComplianceReport(p) /\ UNCHANGED request
    \/ \E p \in ProjectIds : GetStateSummary(p) /\ UNCHANGED request
    \/ \E p \in ProjectIds : PrepareContext(p) /\ UNCHANGED request
    \/ \E p \in ProjectIds : FormatContextForLlm(p) /\ UNCHANGED request
    \/ \E s \in SessionIds : AnalyzeSession(s) /\ UNCHANGED request
    \/ \E p \in ProjectIds : GetVelocity(p) /\ UNCHANGED request
    \/ \E p \in ProjectIds : DetectStuckPatterns(p) /\ UNCHANGED request
    \/ \E p \in ProjectIds : GetProjectHealth(p) /\ UNCHANGED request
    \/ \E p \in ProjectIds : GetRecommendations(p) /\ UNCHANGED request
    \/ \E p \in ProjectIds : GetProductivityReport(p) /\ UNCHANGED request

SpecReadOnly == Init /\ [][NextReadOnly]_vars

\* C15: a call of check_scope_creep, suggest_next_action,
\* get_scope_compliance_report, get_state_summary, prepare_context,
\* format_context_for_llm, analyze_session, get_velocity,
\* detect_stuck_patterns, get_project_health, get_recommendations or
\* get_productivity_report leaves every project, task, session and learning
\* row as it was; rows change only in the steps of the writing operations
C15_ReadOperationsWriteNothing ==
    [][(last'.op \in ReadOps /\ now' = now) => storage' = storage]_vars

\* C15 witness: get_productivity_report has been called on a project that has a
\* blocked task, an ended session and a learning, and the rows are still there
C15_Witness ==
    /\ last.op = "get_productivity_report"
    /\ last.arg \in DOMAIN projects
    /\ \E t \in DOMAIN tasks : tasks[t].status = "blocked"
    /\ \E s \in DOMAIN sessions : sessions[s].ended_at # NULL
    /\ learnings # <<>>
--------------------------------------------------------------------------
(* Properties of the stuck indicators and of the recommendations           *)

\* the blocked tasks of the project the last call was about
LastBlocked == {i \in LastTasks : tasks[i].status = "blocked"}

\* the positions of the many_blocked_tasks indicators in a list of indicators
ManyBlockedIn(indicators) ==
    {k \in DOMAIN indicators : indicators[k].type = "many_blocked_tasks"}

\* C17: on a stored project detect_stuck_patterns reports many_blocked_tasks,
\* once and with severity high, exactly when the project has more than 3
\* blocked tasks, and whenever it reports it get_project_health returns a
\* score below 100
C17_ManyBlockedTasks ==
    /\ (last.op = "detect_stuck_patterns" /\ last.arg \in DOMAIN projects) =>
            /\ ~last.ret.raised
            /\ (ManyBlockedIn(last.ret.value) # {}) <=> (Cardinality(LastBlocked) > 3)
            /\ Cardinality(ManyBlockedIn(last.ret.value)) <= 1
            /\ \A k \in ManyBlockedIn(last.ret.value) :
                    /\ last.ret.value[k].severity = "high"
                    /\ last.ret.value[k].count = Cardinality(LastBlocked)
    /\ (HealthCallResolved /\ ManyBlockedIn(detect_stuck_patterns(last.arg).value) # {}) =>
            /\ ~last.ret.raised
            /\ last.ret.value.score < 100

\* C17 witness: get_project_health called on a project of five blocked tasks
\* and no other, for which the indicator is reported
C17_Witness ==
    /\ HealthCallResolved
    /\ Cardinality(LastTasks) = 5
    /\ LastBlocked = LastTasks
    /\ ManyBlockedIn(detect_stuck_patterns(last.arg).value) # {}
    /\ last.ret.value.score < 100

\* the sum of the lengths of the first n parts
RECURSIVE Consumed(_, _)
Consumed(parts, n) ==
    IF n = 0 THEN 0 ELSE Consumed(parts, n - 1) + Len(parts[n])

\* the positions of the parts at which the running sum exceeds the budget
Overflowing(parts) ==
    {k \in DOMAIN parts : Consumed(parts, k) > max_context_size}

\* C19: when the joined parts exceed the budget, the output joins the parts
\* before the first one at which the running sum of lengths exceeds
\* max_context_size, followed, if the capacity remaining there is more than
\* 100, by the first (remaining - 50) characters of that part and the
\* truncation marker; nothing of any later part is in the output
C19_PrefixWithHardStop ==
    (last.op = "optimize_context" /\ Len(JoinLines(last.parts)) > max_context_size) =>
        IF Overflowing(last.parts) = {}
        THEN last.ret = JoinLines(last.parts)
        ELSE LET k == CHOOSE i \in Overflowing(last.parts) :
                            \A j \in Overflowing(last.parts) : i <= j
                 remaining == max_context_size - Consumed(last.parts, k - 1)
                 taken == SubSeq(last.parts, 1, k - 1)
             IN  last.ret = JoinLines(
                    IF remaining > 100
                    THEN Append(taken, SubSeq(last.parts[k], 1, remaining - 50)
                                       \o TruncationMarker)
                    ELSE taken)

\* C19 witness: three parts, the second overflows with more than 100
\* characters of capacity left and is cut, and the third, which would still
\* fit after it, is not in the output
C19_Witness ==
    /\ last.op = "optimize_context"
    /\ Len(last.parts) = 3
    /\ Overflowing(last.parts) = {2, 3}
    /\ max_context_size - Len(last.parts[1]) > 100
    /\ Len(last.ret) + 1 + Len(last.parts[3]) <= max_context_size
    /\ last.ret = JoinLines(<<last.parts[1],
                              SubSeq(last.parts[2], 1, max_context_size - Len(last.parts[1]) - 50)
                              \o TruncationMarker>>)
--------------------------------------------------------------------------
(* A project that completes a task a day: the inputs of the recommendations *)

\* the largest number of tasks completed within the velocity window
MaxRecentlyCompleted == 8

\* the largest number of tasks in progress next to them
MaxOpen == 3

\* n rows of kind k
Repeat(k, n) == [i \in 1..n |-> k]

\* the positions in TaskKinds of the kinds created and completed at the time
\* of the call
Fresh == [completed |-> 6, pending |-> 8, pending_creep |-> 9, blocked |-> 10,
          in_progress |-> 12]

\* the task tables: recently completed tasks, then at most one pending, one
\* pending scope-creep and one blocked task, then tasks in progress
BusyLists ==
    {Repeat(Fresh.completed, d) \o Repeat(Fresh.pending, p) \o Repeat(Fresh.pending_creep, c)
        \o Repeat(Fresh.blocked, b) \o Repeat(Fresh.in_progress, w) :
            d \in 0..MaxRecentlyCompleted, p \in 0..1, c \in 0..1, b \in 0..1, w \in 0..MaxOpen}

BusyOps == {"get_recommendations", "get_project_health", "get_velocity"}

InitBusy ==
    /\ now = MonitorNow
    /\ projects = [p \in {"p1"} |->
                    [ProjectRow("rag-pipeline", ScopeOfTestWithin, now - 48) EXCEPT
                        !.updated_at = now]]
    /\ \E ks \in BusyLists : tasks = [i \in DOMAIN ks |-> KindRow("p1", ks[i], now)]
    /\ request \in {[op |-> o, arg |-> "p1"] : o \in BusyOps}
    /\ sessions = <<>>
    /\ learnings = <<>>
    /\ max_context_size = 8000
    /\ last = NoCall

NextBusy ==
    /\ request # NoCall
    /\ request' = NoCall
    /\ \/ request.op = "get_velocity" /\ GetVelocity(request.arg)
       \/ request.op = "get_project_health" /\ GetProjectHealth(request.arg)
       \/ request.op = "get_recommendations" /\ GetRecommendations(request.arg)

SpecBusy == InitBusy /\ [][NextBusy]_vars

\* the positions of the positive message in a list of recommendations
PositiveIn(recommendations) ==
    {k \in DOMAIN recommendations : recommendations[k].text = "Project is progressing well"}

\* C20: get_recommendations returns the positive message only when no other
\* recommendation is in the list (none for health below 60, a stuck
\* indicator, low velocity, more than 2 tasks in progress, a blocked task or
\* a scope-creep task) and health is at least 80 with a velocity of at least
\* 1.0 tasks per day
C20_PositiveMessageAlone ==
    (last.op = "get_recommendations" /\ ~last.ret.raised /\ PositiveIn(last.ret.value) # {}) =>
        /\ DOMAIN last.ret.value = PositiveIn(last.ret.value)
        /\ get_project_health(last.arg).value.score >= 80
        /\ get_velocity(last.arg, VelocityDays).tasks_per_day >= 100
--------------------------------------------------------------------------
(* The engine at work: tasks of two projects taken through the three        *)
(* lifecycle operations, and the velocity read in between                  *)

EngineProjects == [p1 |-> "rag-pipeline", p2 |-> "docs-site"]

NextEngine ==
    \/ \E p \in DOMAIN EngineProjects : CreateProject(p, EngineProjects[p], ScopeOfTestWithin)
    \/ \E p \in DOMAIN EngineProjects, d \in Descriptions, c \in BOOLEAN :
            AddTask(p, d, c, "pending")
    \/ \E t \in TaskIds : MarkTaskComplete(t, NULL)
    \/ \E t \in TaskIds, r \in Reasons : MarkTaskBlocked(t, r)
    \/ \E t \in TaskIds : MarkTaskInProgress(t)
    \/ \E d \in ClockSteps : Tick(d)
    \/ \E p \in DOMAIN EngineProjects : GetVelocity(p) /\ UNCHANGED request

SpecEngine == Init /\ [][NextEngine]_vars

\* the tasks of a project whose completed_at is within the trailing window
CompletedWithin(project_id, days) ==
    {i \in DOMAIN tasks :
        /\ tasks[i].project_id = project_id
        /\ tasks[i].completed_at # NULL
        /\ tasks[i].completed_at[1] >= now - HoursPerDay * days}

\* C21: get_velocity counts every task of the project whose completed_at is
\* within the trailing window, whatever the status of the task is now, and
\* tasks_per_day is that count divided by the days (to two decimals)
C21_VelocityCountsCompletedAt ==
    last.op = "get_velocity" =>
        /\ last.ret.value.tasks_completed =
                Cardinality(CompletedWithin(last.arg, last.ret.value.period_days))
        /\ last.ret.value.tasks_per_day =
                RoundDiv(100 * Cardinality(CompletedWithin(last.arg, last.ret.value.period_days)),
                         last.ret.value.period_days)
--------------------------------------------------------------------------
(* Properties of the velocity, the stuck indicators and the health score   *)

\* C22: whenever tasks_per_day > 0, get_velocity returns
\* estimated_days_to_completion = remaining / tasks_per_day (to one decimal),
\* which is 0 when nothing remains; it returns null only when tasks_per_day
\* is 0
C22_EstimateNullOnlyAtZeroVelocity ==
    (last.op = "get_velocity" /\ ~last.ret.raised) =>
        LET v == last.ret.value
        IN  /\ v.tasks_per_day > 0 =>
                    /\ v.estimated_days_to_completion # NULL
                    /\ v.estimated_days_to_completion =
                            Some(RoundDiv(10 * v.remaining_tasks * v.period_days, v.tasks_completed))
            /\ v.tasks_per_day = 0 => v.estimated_days_to_completion = NULL

\* the positions of the no_completed_tasks indicators in a list of indicators
NoCompletedIn(indicators) ==
    {k \in DOMAIN indicators : indicators[k].type = "no_completed_tasks"}

\* C23: on a stored project detect_stuck_patterns reports no_completed_tasks,
\* with severity medium, exactly when the project has no completed task, has
\* at least one task, and was created more than 1 day (24 hours) before the
\* call
C23_NoCompletedAfterOneDay ==
    (last.op = "detect_stuck_patterns" /\ last.arg \in DOMAIN projects) =>
        /\ ~last.ret.raised
        /\ (NoCompletedIn(last.ret.value) # {}) <=>
                /\ LastTasks # {}
                /\ \A i \in LastTasks : tasks[i].status # "completed"
                /\ now - projects[last.arg].created_at > 24
        /\ \A k \in NoCompletedIn(last.ret.value) : last.ret.value[k].severity = "medium"

\* the four penalties as the health score is specified, for the project the
\* last call was about
SpecifiedPenalties ==
    LET total == Cardinality(LastTasks)
        blocked == Cardinality(LastBlocked)
        creep == Cardinality({i \in LastTasks : tasks[i].is_scope_creep})
        stuck == detect_stuck_patterns(last.arg).value
        high == Cardinality({k \in DOMAIN stuck : stuck[k].severity = "high"})
    IN  [blocked |-> IF blocked > 0 THEN (30 * blocked) \div total ELSE 0,
         stuck |-> 15 * high + 5 * (Len(stuck) - high),
         velocity |-> IF get_velocity(last.arg, 7).tasks_per_day < 50 THEN 10 ELSE 0,
         creep |-> IF total > 0 /\ 5 * creep > total THEN (20 * creep) \div total ELSE 0]

\* C24: whenever get_project_health returns, its score is
\* 100 - P_blocked - P_stuck - P_velocity - P_creep clamped to 0..100, and its
\* status is healthy from 80, needs_attention from 60, at_risk from 40 and
\* critical below
C24_HealthScoreFormula ==
    (last.op = "get_project_health" /\ ~last.ret.raised) =>
        LET p == SpecifiedPenalties
            raw == 100 - p.blocked - p.stuck - p.velocity - p.creep
            score == last.ret.value.score
            status == last.ret.value.status
        IN  /\ score = (IF raw < 0 THEN 0 ELSE IF raw > 100 THEN 100 ELSE raw)
            /\ status = "healthy" <=> score >= 80
            /\ status = "needs_attention" <=> (60 <= score /\ score < 80)
            /\ status = "at_risk" <=> (40 <= score /\ score < 60)
            /\ status = "critical" <=> score < 40

\* C24 witness: a call in which each of the four penalties is positive and
\* the score returned is that of an at_risk project
C24_Witness ==
    /\ HealthCallResolved
    /\ SpecifiedPenalties.blocked > 0
    /\ SpecifiedPenalties.stuck > 0
    /\ SpecifiedPenalties.velocity > 0
    /\ SpecifiedPenalties.creep > 0
    /\ last.ret.value.status = "at_risk"
--------------------------------------------------------------------------
(* The history of a project whose tasks were completed in any order        *)

\* the largest number of completed tasks
MaxHistoryTasks == 3

\* the description of the k-th task created
HistoryDescriptions == <<"first", "second", "third", "fourth">>

\* the tables: task k is created at hour k and completed at that hour or at
\* any later one up to the time of the call
HistoryTables ==
    UNION {{[k \in 1..n |->
                [TaskRow("p1", HistoryDescriptions[k], FALSE, "completed", k) EXCEPT
                    !.completed_at = Some(done[k])]] :
                done \in {f \in [1..n -> 1..(MaxHistoryTasks + 1)] : \A k \in 1..n : f[k] >= k}} :
           n \in 0..MaxHistoryTasks}

GetRelevantHistory(project_id, max_items) ==
    Query("get_relevant_history", [project_id |-> project_id, max_items |-> max_items],
          get_relevant_history(project_id, max_items))

InitHistory ==
    /\ now = MaxHistoryTasks + 1
    /\ projects = [p \in {"p1"} |-> [ProjectRow("rag-pipeline", ScopeOfTestWithin, 0) EXCEPT
                                        !.updated_at = now]]
    /\ tasks \in HistoryTables
    /\ request \in {[op |-> "get_relevant_history", project_id |-> "p1", max_items |-> n] :
                        n \in 1..(MaxHistoryTasks - 1)}
    /\ sessions = <<>>
    /\ learnings = <<>>
    /\ max_context_size = 8000
    /\ last = NoCall

NextHistory ==
    /\ request # NoCall
    /\ request' = NoCall
    /\ GetRelevantHistory(request.project_id, request.max_items)

SpecHistory == InitHistory /\ [][NextHistory]_vars

\* the line of a completed task in the history
CompletedLine(i) ==
    <<"-"," ">> \o Symbol.check \o <<" ">> \o Characters(tasks[i].description)

\* the completed tasks whose line is in the text, and where their line is
ShownIn(text) ==
    {i \in DOMAIN tasks : tasks[i].status = "completed" /\ IsSubstring(CompletedLine(i), text)}

LineOf(i, text) ==
    CHOOSE k \in 1..Len(text) : LiteralAt(CompletedLine(i), text, k)

\* C25: the Recently Completed section lists the N most recently completed
\* tasks, oldest of them first: min(N, completed) tasks are listed, no task
\* left out was completed after a listed one, and no listed task comes before
\* one that was completed earlier
C25_MostRecentlyCompleted ==
    last.op = "get_relevant_history" =>
        LET done == {i \in DOMAIN tasks : tasks[i].project_id = last.arg.project_id
                                          /\ tasks[i].status = "completed"}
            shown == ShownIn(last.ret)
            at(i) == tasks[i].completed_at[1]
        IN  /\ shown \subseteq done
            /\ Cardinality(shown) = (IF Cardinality(done) < last.arg.max_items
                                     THEN Cardinality(done) ELSE last.arg.max_items)
            /\ \A i \in shown, j \in done \ shown : at(j) <= at(i)
            /\ \A i \in shown, j \in shown :
                    LineOf(i, last.ret) < LineOf(j, last.ret) => at(i) <= at(j)
--------------------------------------------------------------------------
(* Keywords of the scope: ContextManager.get_scope_keywords (context.py)   *)

\* the stop words of get_scope_keywords
scope_stop_words == {
    <<"a">>, <<"a","n">>, <<"a","n","d">>, <<"a","r","e">>, <<"a","s">>, <<"a","t">>, <<"b","e">>, <<"b","y">>, <<"f","o","r">>,
    <<"f","r","o","m">>, <<"h","a","s">>, <<"h","e">>, <<"i","n">>, <<"i","s">>, <<"i","t">>, <<"i","t","s">>, <<"o","f">>, <<"o","n">>,
    <<"t","h","a","t">>, <<"t","h","e">>, <<"t","o">>, <<"w","a","s">>, <<"w","i","l","l">>, <<"w","i","t","h">> }

\* ContextManager.get_scope_keywords
get_scope_keywords(project_id) ==
    LET project == get_project(project_id)
        keep(w) == w \notin scope_stop_words /\ Len(w) > 2
    IN  IF project = NULL THEN <<>>
        ELSE SelectSeq(FindWords(Lower(project[1].scope)), keep)

GetScopeKeywords(project_id) ==
    Query("get_scope_keywords", project_id, get_scope_keywords(project_id))

InitKeywords ==
    /\ \E scope \in ScopeTexts : projects = [p \in {"p1"} |-> ProjectRow("rag-pipeline", scope, 0)]
    /\ tasks = <<>>
    /\ sessions = <<>>
    /\ learnings = <<>>
    /\ now = 0
    /\ max_context_size = 8000
    /\ request \in {[op |-> "get_scope_keywords", arg |-> p] : p \in ProjectIds}
    /\ last = NoCall

NextKeywords ==
    /\ request # NoCall
    /\ request' = NoCall
    /\ GetScopeKeywords(request.arg)

SpecKeywords == InitKeywords /\ [][NextKeywords]_vars

\* C26: get_scope_keywords returns the tokens that extract_keywords returns
\* on the scope of the project (as sets), and the empty list when the project
\* is not found
C26_ScopeKeywordsAreExtractedKeywords ==
    last.op = "get_scope_keywords" =>
        IF last.arg \in DOMAIN projects
        THEN Range(last.ret) = Range(extract_keywords(projects[last.arg].scope))
        ELSE last.ret = <<>>
--------------------------------------------------------------------------
(* Properties of the three lifecycle operations                            *)

\* the projects table after the project of task t was touched
ProjectsAfter(t) ==
    [p \in DOMAIN projects |->
        IF p = tasks[t].project_id THEN [projects[p] EXCEPT !.updated_at = now]
        ELSE projects[p]]

\* C27: mark_task_complete, mark_task_blocked and mark_task_in_progress on a
\* stored task write that task's status (and completed_at, respectively
\* blocked_reason) and nothing else of any task, and set the updated_at of
\* the task's project, not before what it was, and nothing else of any project
C27_LifecycleWritesOnlyItsFields ==
    [][\A t \in DOMAIN tasks :
        /\ MarkTaskComplete(t, NULL) =>
                /\ tasks' = [tasks EXCEPT ![t].status = "completed",
                                          ![t].completed_at = Some(now)]
                /\ projects' = ProjectsAfter(t)
        /\ MarkTaskInProgress(t) =>
                /\ tasks' = [tasks EXCEPT ![t].status = "in_progress"]
                /\ projects' = ProjectsAfter(t)
        /\ \A r \in Reasons :
                MarkTaskBlocked(t, r) =>
                    /\ tasks' = [tasks EXCEPT ![t].status = "blocked",
                                              ![t].blocked_reason = Some(r)]
                    /\ projects' = ProjectsAfter(t)
        /\ \A p \in DOMAIN projects : projects'[p].updated_at >= projects[p].updated_at]_vars

\* C27 witness: a scope-creep task went to blocked an hour and more after
\* its creation: its project was touched then, the other project and the
\* other task are as they were created
C27_Witness ==
    /\ DOMAIN projects = {"p1", "p2"}
    /\ Len(tasks) = 2
    /\ tasks[1].status = "blocked" /\ tasks[1].is_scope_creep /\ tasks[1].created_at = 0
    /\ tasks[2].status = "pending" /\ tasks[2].project_id # tasks[1].project_id
    /\ projects[tasks[1].project_id].updated_at = now
    /\ projects[tasks[2].project_id].updated_at < now

--------------------------------------------------------------------------
(* Properties of the recommendations                                       *)

\* the entries of a list of recommendations that are the next-action fallback
NextIn(recommendations) ==
    {k \in DOMAIN recommendations : recommendations[k].text = "Next"}

\* C28: get_recommendations on a stored project returns, with at least one
\* recommendation, for any tasks including none and all completed; the 'Next'
\* recommendation is in the list only as its one entry, and then carries the
\* next action
C28_RecommendationsNeverEmpty ==
    (last.op = "get_recommendations" /\ last.arg \in DOMAIN projects) =>
        /\ ~last.ret.raised
        /\ last.ret.value # <<>>
        /\ NextIn(last.ret.value) # {} =>
                /\ Len(last.ret.value) = 1
                /\ last.ret.value[1].next_action = suggest_next_action(last.arg)

\* C28 witness: no check fired for a stored project with a pending task, and
\* the one recommendation is to start it
C28_Witness ==
    /\ last.op = "get_recommendations"
    /\ last.arg \in DOMAIN projects
    /\ NextIn(last.ret.value) = {1}
    /\ last.ret.value[1].next_action.action = "start"

\* a project without tasks gets a recommendation from a check
RecommendedWithoutTasks ==
    /\ last.op = "get_recommendations"
    /\ last.arg \in DOMAIN projects
    /\ LastTasks = {}
    /\ NextIn(last.ret.value) = {}

\* all the tasks of the project are completed and the one recommendation is
\* the next action 'none'
RecommendedAllCompleted ==
    /\ last.op = "get_recommendations"
    /\ last.arg \in DOMAIN projects
    /\ NextIn(last.ret.value) = {1}
    /\ last.ret.value[1].next_action.action = "none"

--------------------------------------------------------------------------
(* Properties of the statuses under the lifecycle operations               *)

\* the pending tasks of a project
PendingOf(project_id) ==
    {i \in DOMAIN tasks : tasks[i].project_id = project_id /\ tasks[i].status = "pending"}

\* C29: with add_task and the three lifecycle operations, a task that is
\* not pending is not pending after any step, and a project has more
\* pending tasks after a step only when the step added a task to it
C29_PendingOnlyInitial ==
    [][/\ \A t \in DOMAIN tasks :
            tasks[t].status # "pending" => tasks'[t].status # "pending"
       /\ \A p \in DOMAIN EngineProjects :
            Cardinality(PendingOf(p)') > Cardinality(PendingOf(p)) =>
                /\ Len(tasks') = Len(tasks) + 1
                /\ tasks'[Len(tasks')].project_id = p
                /\ Cardinality(PendingOf(p)') = Cardinality(PendingOf(p)) + 1]_vars

\* C29 witness: a task was blocked, completed and then taken up again, and
\* another task of the project is still pending
C29_Witness ==
    \E a \in DOMAIN tasks, c \in DOMAIN tasks :
        /\ tasks[a].status = "in_progress"
        /\ tasks[a].blocked_reason # NULL /\ tasks[a].completed_at # NULL
        /\ tasks[c].status = "pending" /\ tasks[c].project_id = tasks[a].project_id

--------------------------------------------------------------------------
(* Properties of the two counts of remaining tasks                         *)

\* the number of tasks with status st of the project of the last call
LastCount(st) == Cardinality({i \in LastTasks : tasks[i].status = st})

\* the last call was get_productivity_report on a stored project, and returned
ReportReturned ==
    /\ last.op = "get_productivity_report"
    /\ last.arg \in DOMAIN projects
    /\ ~last.ret.raised

\* C30: remaining_tasks of get_velocity and completion.remaining of
\* get_productivity_report are the pending and in-progress tasks,
\* get_estimated_remaining_tasks counts the blocked ones as well; completed,
\* remaining and blocked add up to the total, and the two figures are equal
\* exactly when no task of the project is blocked
C30_TwoRemainingCounts ==
    /\ last.op = "get_velocity" =>
            /\ last.ret.value.remaining_tasks = LastCount("pending") + LastCount("in_progress")
            /\ get_estimated_remaining_tasks(last.arg) =
                    last.ret.value.remaining_tasks + LastCount("blocked")
            /\ (last.ret.value.remaining_tasks = get_estimated_remaining_tasks(last.arg))
                    <=> (LastCount("blocked") = 0)
    /\ ReportReturned =>
            LET completion == last.ret.value.completion
            IN  /\ completion.remaining = LastCount("pending") + LastCount("in_progress")
                /\ completion.remaining = last.ret.value.velocity.remaining_tasks
                /\ get_estimated_remaining_tasks(last.arg) =
                        LastCount("pending") + LastCount("in_progress") + LastCount("blocked")
                /\ completion.completed + completion.remaining + LastCount("blocked")
                        = completion.total
                /\ completion.total = Cardinality(LastTasks)
                /\ (completion.remaining = get_estimated_remaining_tasks(last.arg))
                        <=> (LastCount("blocked") = 0)

\* C30 witness: the report of a project with tasks of all four statuses,
\* two of them blocked
C30_Witness ==
    /\ ReportReturned
    /\ LastCount("blocked") = 2
    /\ LastCount("pending") > 0 /\ LastCount("in_progress") > 0 /\ LastCount("completed") > 0
    /\ get_estimated_remaining_tasks(last.arg) = last.ret.value.completion.remaining + 2

\* the two figures agree for a project with tasks and nothing blocked
RemainingFiguresAgree ==
    /\ ReportReturned
    /\ LastCount("blocked") = 0
    /\ last.ret.value.completion.remaining > 0
    /\ get_estimated_remaining_tasks(last.arg) = last.ret.value.completion.remaining
=============================================================================
